---- MODULE Spec2Model ----
(***************************************************************************)
(* The Inode layer of easy-fs (easy-fs/src/vfs.rs) over a byte-level model *)
(* of the disk inode, the bitmap allocator and the block cache it drives.  *)
(*                                                                         *)
(* One directory (the root, inode 0) and the files created in it.  Every   *)
(* Inode operation is one action: each of them takes the filesystem lock   *)
(* on entry and holds it to its return, so the operations of a run are     *)
(* serialized.  `last` records the operation of the latest step, its       *)
(* arguments and what it returned.                                         *)
(***************************************************************************)
EXTENDS Integers, Sequences, FiniteSets, TLC

(***************************************************************************)
(* Bounds of the model.                                                    *)
(***************************************************************************)
\* Longest file name, in bytes.  easy-fs allows 27 (a 32-byte record); the names
\* of the model are one byte long and its record is as much shorter.
NAME_LENGTH_LIMIT == 1
\* Directory records per block.  easy-fs has 16; the model shortens the block,
\* so that a directory reaches a block boundary after DirentsPerBlock records.
DirentsPerBlock == 2
\* Blocks of the data area (bits of the data bitmap).
NumDataBlocks == 3
\* Inode slots (bits of the inode bitmap), the root directory included.
NumInodes == 3
\* Inode records per block of the inode area.  easy-fs has 4.
InodesPerBlock == 2
\* Operations a caller issues, in the runs where the callers stop.
MaxCalls == 2
\* The slots the fd table of the model grows to.
MaxFds == 5
\* The offset an open file of the model advances to.
MaxOffset == 1

(***************************************************************************)
(* Layout.                                                                 *)
(***************************************************************************)
\* A record is the NUL-terminated name and a u32 inode id.
DIRENT_SZ == NAME_LENGTH_LIMIT + 1 + 4
BLOCK_SZ == DirentsPerBlock * DIRENT_SZ
\* A directory of the model grows to one record past its first block.
MaxDirents == DirentsPerBlock + 1
ROOT_INODE == 0
InodeIds == 0 .. (NumInodes - 1)
\* Block ids of the data area; 0 is the null pointer of an unused slot.
BlockIds == 1 .. NumDataBlocks

\* File names, as byte strings.
NameA == <<97>>
NameB == <<98>>
Names == {NameA, NameB}

Min(x, y) == IF x < y THEN x ELSE y
ZeroBytes(n) == [i \in 1 .. n |-> 0]

(***************************************************************************)
(* DirEntry: the NUL-padded name (NAME_LENGTH_LIMIT + 1 bytes), then the   *)
(* inode id as a little-endian u32.                                        *)
(***************************************************************************)
DirEntry_empty == ZeroBytes(DIRENT_SZ)

DirEntry_new(name, inode_id) ==
    [i \in 1 .. DIRENT_SZ |->
        IF i <= Len(name) THEN name[i]
        ELSE IF i <= NAME_LENGTH_LIMIT + 1 THEN 0
        ELSE (inode_id \div (256 ^ (i - NAME_LENGTH_LIMIT - 2))) % 256]

\* The bytes before the first NUL.
DirEntry_name(dirent) ==
    LET nul == CHOOSE k \in 1 .. (NAME_LENGTH_LIMIT + 1) :
                   /\ dirent[k] = 0
                   /\ \A j \in 1 .. (k - 1) : dirent[j] # 0
    IN  SubSeq(dirent, 1, nul - 1)

DirEntry_inode_id(dirent) ==
    LET b(k) == dirent[NAME_LENGTH_LIMIT + 1 + k]
    IN  b(1) + 256 * b(2) + 65536 * b(3) + 16777216 * b(4)

(***************************************************************************)
(* DiskInode: type, size, nlinks, the block pointers, and the bytes of the *)
(* blocks they point at.  direct[k] is the id of the inode's k-th block (0 *)
(* for a slot that is not set) and data[k] the content of that block.  A   *)
(* block no pointer reaches is not part of the state: nothing reads it,    *)
(* and the allocator hands out zeroed blocks only (the data area is zeroed *)
(* when the file system is made, and dealloc_data zeroes what it frees).   *)
(* An inode of the model never outgrows its direct pointers, so the index  *)
(* blocks of the indirect levels do not appear in total_blocks.            *)
(***************************************************************************)
PointerSlots == 0 .. (NumDataBlocks - 1)
NoPointers == [k \in PointerSlots |-> 0]
NoData == [k \in PointerSlots |-> ZeroBytes(BLOCK_SZ)]

DiskInode_initialize(type) ==
    [type |-> type, size |-> 0, nlinks |-> 1, direct |-> NoPointers, data |-> NoData]

\* The record of an inode slot no alloc_inode has handed out yet.
UnusedInode ==
    [type |-> "Unused", size |-> 0, nlinks |-> 0, direct |-> NoPointers, data |-> NoData]

is_dir(disk_inode) == disk_inode.type = "Directory"
is_file(disk_inode) == disk_inode.type = "File"

data_blocks(size) == (size + BLOCK_SZ - 1) \div BLOCK_SZ
total_blocks(size) == data_blocks(size)

blocks_num_needed(disk_inode, new_size) ==
    total_blocks(new_size) - total_blocks(disk_inode.size)

\* Wires new_blocks into the pointer slots data_blocks(size) .. data_blocks(new_size)-1.
DiskInode_increase_size(disk_inode, new_size, new_blocks) ==
    LET current_blocks == data_blocks(disk_inode.size)
        wired(k) == k >= current_blocks /\ k < data_blocks(new_size)
    IN  [disk_inode EXCEPT
            !.size = new_size,
            !.direct = [k \in PointerSlots |->
                           IF wired(k) THEN new_blocks[k - current_blocks + 1]
                           ELSE disk_inode.direct[k]],
            !.data = [k \in PointerSlots |->
                         IF wired(k) THEN ZeroBytes(BLOCK_SZ) ELSE disk_inode.data[k]]]

\* The blocks clear_size returns: those the size accounts for.
clear_size_blocks(disk_inode) ==
    [i \in 1 .. data_blocks(disk_inode.size) |-> disk_inode.direct[i - 1]]

\* The inode after clear_size: size 0, the returned pointers zeroed.
DiskInode_clear_size(disk_inode) ==
    LET returned(k) == k < data_blocks(disk_inode.size)
    IN  [disk_inode EXCEPT
            !.size = 0,
            !.direct = [k \in PointerSlots |->
                           IF returned(k) THEN 0 ELSE disk_inode.direct[k]],
            !.data = [k \in PointerSlots |->
                         IF returned(k) THEN ZeroBytes(BLOCK_SZ) ELSE disk_inode.data[k]]]

\* The byte at `offset` of the inode's content.
ByteAt(disk_inode, offset) ==
    disk_inode.data[offset \div BLOCK_SZ][(offset % BLOCK_SZ) + 1]

\* read_at: the bytes of [offset, min(offset + len, size)); their count is
\* what read_at returns.
DiskInode_read_at(disk_inode, offset, len) ==
    LET end == Min(offset + len, disk_inode.size)
    IN  IF offset >= end THEN <<>>
        ELSE [i \in 1 .. (end - offset) |-> ByteAt(disk_inode, offset + i - 1)]

\* The number of bytes write_at writes: [offset, min(offset + len, size)).
write_at_size(disk_inode, offset, buf) ==
    Min(offset + Len(buf), disk_inode.size) - offset

\* The inode after write_at(offset, buf).
DiskInode_write_at(disk_inode, offset, buf) ==
    LET end == Min(offset + Len(buf), disk_inode.size)
    IN  [disk_inode EXCEPT
            !.data = [k \in PointerSlots |->
                         [o \in 1 .. BLOCK_SZ |->
                             LET pos == k * BLOCK_SZ + o - 1
                             IN  IF pos >= offset /\ pos < end
                                 THEN buf[pos - offset + 1]
                                 ELSE disk_inode.data[k][o]]]]

(***************************************************************************)
(* State.                                                                  *)
(***************************************************************************)
VARIABLES
    inodes,        \* inode id -> its DiskInode record (through the block cache)
    inode_bitmap,  \* the inode ids alloc_inode has handed out
    data_bitmap,   \* the data blocks marked allocated
    dirty,         \* some cached block is modified and not yet written back
    panicked,      \* the kernel has panicked
    last,          \* the operation of the latest step and its result
    callers,       \* caller -> the operation it is in, its position and its locals
    fd_table,      \* the current task's table: fd -> the file open there, if any
    fdtoinode      \* the current task's record: fd -> the inode id noted by sys_open

vars == <<inodes, inode_bitmap, data_bitmap, dirty, panicked, last, callers,
          fd_table, fdtoinode>>

\* `last` before any operation; every operation fills in its own fields.
\* ret is the status or count returned; for create, the inode id of the
\* handle returned, or -1 for None.
NoOp ==
    [op |-> "none", returned |-> TRUE, ret |-> 0, name |-> <<>>, new |-> <<>>,
     id |-> 0, off |-> 0, len |-> 0, buf |-> <<>>, data |-> <<>>]

\* The callers of the Inode operations.
Callers == {"p", "q"}

\* A caller that is in no operation.  `held` is the stack of locks it holds;
\* `calls` counts its operations when `counted`.
IdleCaller ==
    [op |-> "none", pc |-> "idle", name |-> <<>>, new |-> <<>>, id |-> 0, buf |-> <<>>,
     inode_id |-> <<>>, new_inode_id |-> 0, held |-> <<>>, j |-> 0, counted |-> FALSE, calls |-> 0]

\* The state easy-fs is created in: an empty root directory, a free data area.
EmptyFileSystem ==
    /\ inodes = [i \in InodeIds |->
                    IF i = ROOT_INODE THEN DiskInode_initialize("Directory")
                    ELSE UnusedInode]
    /\ inode_bitmap = {ROOT_INODE}
    /\ data_bitmap = {}
    /\ dirty = FALSE
    /\ panicked = FALSE
    /\ last = NoOp

\* The files a task starts with: fd 0 is the console input, 1 and 2 the
\* console output.  A slot of the table is an Option: <<>> or <<file>>.
Stdin == [kind |-> "stdin", readable |-> TRUE, writable |-> FALSE, inode_id |-> 0, offset |-> 0]
Stdout == [kind |-> "stdout", readable |-> FALSE, writable |-> TRUE, inode_id |-> 0, offset |-> 0]

\* The fds of the model, and the mark of an fd sys_open has not yet noted.
Fds == 0 .. (MaxFds - 1)
Unset == 0 - 1

\* The task the kernel runs: the three console files, nothing noted.
NewTask ==
    /\ fd_table = << <<Stdin>>, <<Stdout>>, <<Stdout>> >>
    /\ fdtoinode = [fd \in Fds |-> Unset]

Init ==
    /\ EmptyFileSystem
    /\ callers = [c \in Callers |-> IdleCaller]
    /\ NewTask

\* The same, with callers that issue MaxCalls operations each and stop.
InitCounted ==
    /\ EmptyFileSystem
    /\ callers = [c \in Callers |-> [IdleCaller EXCEPT !.counted = TRUE]]
    /\ NewTask

(***************************************************************************)
(* The allocator (EasyFileSystem).  The bitmaps of the model are small:    *)
(* an operation that needs more inodes or blocks than are free is not      *)
(* taken.                                                                  *)
(***************************************************************************)
FreeInodes == InodeIds \ inode_bitmap
FreeBlocks(bitmap) == BlockIds \ bitmap

\* Bitmap::alloc: the lowest clear bit.
LowestOf(S) == CHOOSE x \in S : \A y \in S : x <= y

\* n successive alloc_data calls: the n lowest free blocks, in order.
RECURSIVE alloc_data_n(_, _)
alloc_data_n(bitmap, n) ==
    IF n = 0 THEN <<>>
    ELSE LET b == LowestOf(FreeBlocks(bitmap))
         IN  <<b>> \o alloc_data_n(bitmap \cup {b}, n - 1)

SeqRange(s) == {s[i] : i \in DOMAIN s}

(***************************************************************************)
(* Inode helpers.                                                          *)
(***************************************************************************)
\* The record in slot i of a directory.
ReadDirent(disk_inode, i) == DiskInode_read_at(disk_inode, DIRENT_SZ * i, DIRENT_SZ)

\* The slots of the directory whose record carries the name.
MatchingSlots(disk_inode, name) ==
    {i \in 0 .. ((disk_inode.size \div DIRENT_SZ) - 1) :
        DirEntry_name(ReadDirent(disk_inode, i)) = name}

\* A lookup that keeps the last record with the name instead of the first.
find_inode_id_last(disk_inode, name) ==
    LET hits == MatchingSlots(disk_inode, name)
    IN  IF hits = {} THEN <<>>
        ELSE <<DirEntry_inode_id(ReadDirent(disk_inode,
                   CHOOSE i \in hits : \A k \in hits : k <= i))>>

\* find_inode_id: the inode id of the first record with that name, as a
\* sequence of at most one element (Option).
find_inode_id(disk_inode, name) ==
    LET hits == MatchingSlots(disk_inode, name)
    IN  IF hits = {} THEN <<>>
        ELSE <<DirEntry_inode_id(ReadDirent(disk_inode, LowestOf(hits)))>>

\* Inode::increase_size: the blocks it takes from the allocator.
increase_size_blocks(bitmap, disk_inode, new_size) ==
    IF new_size < disk_inode.size THEN <<>>
    ELSE alloc_data_n(bitmap, blocks_num_needed(disk_inode, new_size))

\* An increase_size without the early return: a smaller size is taken over.
increase_size_truncates(bitmap, disk_inode, new_size) ==
    IF new_size < disk_inode.size THEN [disk_inode EXCEPT !.size = new_size]
    ELSE DiskInode_increase_size(disk_inode, new_size,
                                 increase_size_blocks(bitmap, disk_inode, new_size))

\* Inode::increase_size: the disk inode afterwards.
increase_size(bitmap, disk_inode, new_size) ==
    IF new_size < disk_inode.size THEN disk_inode
    ELSE DiskInode_increase_size(disk_inode, new_size,
                                 increase_size_blocks(bitmap, disk_inode, new_size))

\* Whether the allocator can serve increase_size(new_size).
CanGrow(bitmap, disk_inode, new_size) ==
    \/ new_size < disk_inode.size
    \/ blocks_num_needed(disk_inode, new_size) <= Cardinality(FreeBlocks(bitmap))

\* The size create and linkat grow the directory to.
AppendSize(root_inode) == ((root_inode.size \div DIRENT_SZ) + 1) * DIRENT_SZ

\* The first half of the closure of create and linkat: the directory grown
\* by one record.
GrowDir(root_inode) == increase_size(data_bitmap, root_inode, AppendSize(root_inode))

\* The whole closure: grown, then the record written in slot file_count.
AppendDirent(root_inode, dirent) ==
    DiskInode_write_at(GrowDir(root_inode),
                       (root_inode.size \div DIRENT_SZ) * DIRENT_SZ, dirent)

\* The data bitmap after the closure.
AppendBitmap(root_inode) ==
    data_bitmap \cup SeqRange(increase_size_blocks(data_bitmap, root_inode,
                                                   AppendSize(root_inode)))

\* The model's cap on the directory, and the allocator able to serve the growth.
CanAppend(root_inode) ==
    /\ root_inode.size \div DIRENT_SZ < MaxDirents
    /\ CanGrow(data_bitmap, root_inode, AppendSize(root_inode))

(***************************************************************************)
(* Inode::create                                                           *)
(***************************************************************************)
\* A create that takes the inode before it looks for the name.
create_rejected_after_alloc(name) ==
    /\ FreeInodes # {}
    /\ inode_bitmap' = inode_bitmap \cup {LowestOf(FreeInodes)}
    /\ last' = [NoOp EXCEPT !.op = "create", !.name = name, !.ret = -1]
    /\ UNCHANGED <<inodes, data_bitmap, dirty, panicked>>

\* The name exists: create returns None.
create_rejected(name) ==
    /\ last' = [NoOp EXCEPT !.op = "create", !.name = name, !.ret = -1]
    /\ UNCHANGED <<inodes, inode_bitmap, data_bitmap, dirty, panicked>>

\* A create that writes its record in slot 0 of the grown directory.
create_file_writes_first(name) ==
    LET root_inode == inodes[ROOT_INODE]
        new_inode_id == LowestOf(FreeInodes)
    IN  /\ FreeInodes # {}
        /\ CanAppend(root_inode)
        /\ inode_bitmap' = inode_bitmap \cup {new_inode_id}
        /\ inodes' = [inodes EXCEPT
               ![new_inode_id] = DiskInode_initialize("File"),
               ![ROOT_INODE] = DiskInode_write_at(GrowDir(root_inode), 0,
                                                  DirEntry_new(name, new_inode_id))]
        /\ data_bitmap' = AppendBitmap(root_inode)
        /\ dirty' = FALSE
        /\ last' = [NoOp EXCEPT !.op = "create", !.name = name, !.ret = new_inode_id]
        /\ UNCHANGED panicked

\* The name is new: alloc_inode, initialize, grow the directory, write the
\* record, flush.  create returns the handle of new_inode_id.
create_file(name) ==
    LET root_inode == inodes[ROOT_INODE]
        new_inode_id == LowestOf(FreeInodes)
    IN  /\ FreeInodes # {}
        /\ CanAppend(root_inode)
        /\ inode_bitmap' = inode_bitmap \cup {new_inode_id}
        /\ inodes' = [inodes EXCEPT
               ![new_inode_id] = DiskInode_initialize("File"),
               ![ROOT_INODE] = AppendDirent(root_inode, DirEntry_new(name, new_inode_id))]
        /\ data_bitmap' = AppendBitmap(root_inode)
        \* block_cache_sync_all()
        /\ dirty' = FALSE
        /\ last' = [NoOp EXCEPT !.op = "create", !.name = name, !.ret = new_inode_id]
        /\ UNCHANGED panicked

create(name) ==
    /\ ~panicked
    /\ IF find_inode_id(inodes[ROOT_INODE], name) # <<>>
       THEN create_rejected(name)
       ELSE create_file(name)

(***************************************************************************)
(* Inode::linkat                                                           *)
(***************************************************************************)
\* old_name == new_name: -1, before the lock is taken.
link_rejected(old_name, new_name) ==
    /\ last' = [NoOp EXCEPT !.op = "linkat", !.name = old_name, !.new = new_name,
                            !.ret = -1]
    /\ UNCHANGED <<inodes, inode_bitmap, data_bitmap, dirty, panicked>>

\* A linkat that, like create, answers -1 when new_name has a record.
link_append_checks_new(old_name, new_name) ==
    LET root_inode == inodes[ROOT_INODE]
        inode_id == find_inode_id(root_inode, old_name)
        called == [NoOp EXCEPT !.op = "linkat", !.name = old_name, !.new = new_name]
    IN  IF find_inode_id(root_inode, new_name) # <<>>
        THEN /\ last' = [called EXCEPT !.ret = -1]
             /\ UNCHANGED <<inodes, inode_bitmap, data_bitmap, dirty, panicked>>
        ELSE /\ CanAppend(root_inode)
             /\ data_bitmap' = AppendBitmap(root_inode)
             /\ dirty' = TRUE
             /\ UNCHANGED inode_bitmap
             /\ IF inode_id = <<>>
                THEN /\ inodes' = [inodes EXCEPT ![ROOT_INODE] = GrowDir(root_inode)]
                     /\ panicked' = TRUE
                     /\ last' = [called EXCEPT !.returned = FALSE]
                ELSE /\ inodes' =
                           LET appended == [inodes EXCEPT ![ROOT_INODE] =
                                   AppendDirent(root_inode, DirEntry_new(new_name, inode_id[1]))]
                           IN  [appended EXCEPT ![inode_id[1]].nlinks = @ + 1]
                     /\ last' = [called EXCEPT !.ret = 0]
                     /\ UNCHANGED panicked

\* A linkat that reports an absent old_name with -1.
link_append_reports(old_name, new_name) ==
    LET root_inode == inodes[ROOT_INODE]
        inode_id == find_inode_id(root_inode, old_name)
        called == [NoOp EXCEPT !.op = "linkat", !.name = old_name, !.new = new_name]
    IN  IF inode_id = <<>>
        THEN /\ last' = [called EXCEPT !.ret = -1]
             /\ UNCHANGED <<inodes, inode_bitmap, data_bitmap, dirty, panicked>>
        ELSE /\ CanAppend(root_inode)
             /\ data_bitmap' = AppendBitmap(root_inode)
             /\ dirty' = TRUE
             /\ inodes' =
                   LET appended == [inodes EXCEPT ![ROOT_INODE] =
                           AppendDirent(root_inode, DirEntry_new(new_name, inode_id[1]))]
                   IN  [appended EXCEPT ![inode_id[1]].nlinks = @ + 1]
             /\ last' = [called EXCEPT !.ret = 0]
             /\ UNCHANGED <<inode_bitmap, panicked>>

\* The rest of linkat: resolve old_name, grow the directory, write the record
\* (new_name, inode_id), raise the inode's nlinks.  inode_id.unwrap() panics
\* in the closure, after increase_size, when old_name is absent.
link_append(old_name, new_name) ==
    LET root_inode == inodes[ROOT_INODE]
        inode_id == find_inode_id(root_inode, old_name)
        called == [NoOp EXCEPT !.op = "linkat", !.name = old_name, !.new = new_name]
    IN  /\ CanAppend(root_inode)
        /\ data_bitmap' = AppendBitmap(root_inode)
        /\ dirty' = TRUE
        /\ UNCHANGED inode_bitmap
        /\ IF inode_id = <<>>
           THEN /\ inodes' = [inodes EXCEPT ![ROOT_INODE] = GrowDir(root_inode)]
                /\ panicked' = TRUE
                /\ last' = [called EXCEPT !.returned = FALSE]
           ELSE /\ inodes' =
                      LET appended == [inodes EXCEPT ![ROOT_INODE] =
                              AppendDirent(root_inode, DirEntry_new(new_name, inode_id[1]))]
                      IN  [appended EXCEPT ![inode_id[1]].nlinks = @ + 1]
                /\ last' = [called EXCEPT !.ret = 0]
                /\ UNCHANGED panicked

\* A linkat without the test of old_name == new_name.
linkat_unchecked(old_name, new_name) ==
    /\ ~panicked
    /\ link_append(old_name, new_name)

linkat(old_name, new_name) ==
    /\ ~panicked
    /\ IF old_name = new_name
       THEN link_rejected(old_name, new_name)
       ELSE link_append(old_name, new_name)

(***************************************************************************)
(* Inode::modify_entry and Inode::unlinkat                                 *)
(***************************************************************************)
\* An inner loop that stops one record early.
RECURSIVE ShiftLeft_short(_, _, _)
ShiftLeft_short(disk_inode, j, file_count) ==
    IF j >= file_count - 2 THEN disk_inode
    ELSE ShiftLeft_short(
             DiskInode_write_at(disk_inode, j * DIRENT_SZ,
                 DiskInode_read_at(disk_inode, (j + 1) * DIRENT_SZ, DIRENT_SZ)),
             j + 1, file_count)

\* The inner loop of modify_entry: slot j takes the record of slot j + 1, for
\* j from the matching slot to the last but one.
RECURSIVE ShiftLeft(_, _, _)
ShiftLeft(disk_inode, j, file_count) ==
    IF j >= file_count - 1 THEN disk_inode
    ELSE ShiftLeft(
             DiskInode_write_at(disk_inode, j * DIRENT_SZ,
                 DiskInode_read_at(disk_inode, (j + 1) * DIRENT_SZ, DIRENT_SZ)),
             j + 1, file_count)

\* A modify_entry that blanks the matching record where it lies.
modify_entry_blank(disk_inode, name) ==
    LET hits == MatchingSlots(disk_inode, name)
    IN  IF hits = {} THEN disk_inode
        ELSE DiskInode_write_at(disk_inode, LowestOf(hits) * DIRENT_SZ, DirEntry_empty)

\* A modify_entry that shifts the records and forgets to set the size.
modify_entry_keeps_size(disk_inode, name) ==
    LET hits == MatchingSlots(disk_inode, name)
        file_count == disk_inode.size \div DIRENT_SZ
    IN  IF hits = {} THEN disk_inode
        ELSE ShiftLeft(disk_inode, LowestOf(hits), file_count)

\* modify_entry: at the first record with the name, shift the later records
\* left by one and set the size field to one record less.
modify_entry(disk_inode, name) ==
    LET hits == MatchingSlots(disk_inode, name)
        file_count == disk_inode.size \div DIRENT_SZ
    IN  IF hits = {} THEN disk_inode
        ELSE [ShiftLeft(disk_inode, LowestOf(hits), file_count) EXCEPT
                 !.size = (file_count - 1) * DIRENT_SZ]

\* A closure that forgets the decrement.
unlink_target_keeps_nlinks(disk_inode) ==
    IF disk_inode.nlinks = 1 THEN DiskInode_clear_size(disk_inode) ELSE disk_inode

\* The closure unlinkat runs on the target inode: nlinks -= 1, and clear_size
\* at 0 (the blocks clear_size returns are dropped).
unlink_target(disk_inode) ==
    LET dec == [disk_inode EXCEPT !.nlinks = @ - 1]
    IN  IF dec.nlinks = 0 THEN DiskInode_clear_size(dec) ELSE dec

\* The name is absent: -1.
unlink_absent(name) ==
    /\ last' = [NoOp EXCEPT !.op = "unlinkat", !.name = name, !.ret = -1]
    /\ UNCHANGED <<inodes, inode_bitmap, data_bitmap, dirty, panicked>>

\* An unlinkat that gives the inode id back when nlinks reaches 0.
unlink_found_frees_inode(name, i_id) ==
    LET called == [NoOp EXCEPT !.op = "unlinkat", !.name = name]
    IN  IF inodes[i_id].nlinks = 0
        THEN /\ panicked' = TRUE
             /\ last' = [called EXCEPT !.returned = FALSE]
             /\ UNCHANGED <<inodes, inode_bitmap, data_bitmap, dirty>>
        ELSE /\ inodes' =
                   LET dropped == [inodes EXCEPT ![i_id] = unlink_target(inodes[i_id])]
                   IN  [dropped EXCEPT
                           ![ROOT_INODE] = modify_entry(dropped[ROOT_INODE], name)]
             /\ inode_bitmap' = IF inodes[i_id].nlinks = 1
                                THEN inode_bitmap \ {i_id} ELSE inode_bitmap
             /\ dirty' = TRUE
             /\ last' = [called EXCEPT !.ret = 0]
             /\ UNCHANGED <<data_bitmap, panicked>>

\* The name resolves to i_id: lower its nlinks, then modify_entry on the
\* directory.  `nlinks -= 1` on a u32 that is 0 overflows, which panics.
unlink_found(name, i_id) ==
    LET called == [NoOp EXCEPT !.op = "unlinkat", !.name = name]
    IN  IF inodes[i_id].nlinks = 0
        THEN /\ panicked' = TRUE
             /\ last' = [called EXCEPT !.returned = FALSE]
             /\ UNCHANGED <<inodes, inode_bitmap, data_bitmap, dirty>>
        ELSE /\ inodes' =
                   LET dropped == [inodes EXCEPT ![i_id] = unlink_target(inodes[i_id])]
                   IN  [dropped EXCEPT
                           ![ROOT_INODE] = modify_entry(dropped[ROOT_INODE], name)]
             /\ dirty' = TRUE
             /\ last' = [called EXCEPT !.ret = 0]
             /\ UNCHANGED <<inode_bitmap, data_bitmap, panicked>>

\* An unlinkat that runs past the absent name to its `return 0`.
unlinkat_falls_through(name) ==
    /\ ~panicked
    /\ LET inode_id == find_inode_id(inodes[ROOT_INODE], name)
       IN  IF inode_id = <<>>
           THEN /\ last' = [NoOp EXCEPT !.op = "unlinkat", !.name = name, !.ret = 0]
                /\ UNCHANGED <<inodes, inode_bitmap, data_bitmap, dirty, panicked>>
           ELSE unlink_found(name, inode_id[1])

unlinkat(name) ==
    /\ ~panicked
    /\ LET inode_id == find_inode_id(inodes[ROOT_INODE], name)
       IN  IF inode_id = <<>>
           THEN unlink_absent(name)
           ELSE unlink_found(name, inode_id[1])

(***************************************************************************)
(* Inode::write_at, Inode::read_at, Inode::clear, on the handle of a file  *)
(***************************************************************************)
\* The handles a caller may hold: create returns one for every file it makes,
\* and a handle outlives the names of its file.
FileHandles == inode_bitmap \ {ROOT_INODE}

\* The buffers written: len bytes that differ from place to place.
Pattern(len, seed) == [i \in 1 .. len |-> (seed + i) % 256]
\* One short write, for the runs that are about the directory.
SmallBufs == {Pattern(1, 16)}
\* Writes within one block and across a block boundary, of two contents.
IOBufs == {Pattern(len, seed) : len \in {1, BLOCK_SZ + 1}, seed \in {16, 32}}
Offsets == {0}

\* A write_at that does not grow the inode first.
write_at_no_grow(id, offset, buf) ==
    /\ ~panicked
    /\ offset <= inodes[id].size
    /\ inodes' = [inodes EXCEPT ![id] = DiskInode_write_at(inodes[id], offset, buf)]
    /\ dirty' = FALSE
    /\ last' = [NoOp EXCEPT !.op = "write_at", !.id = id, !.off = offset,
                            !.buf = buf, !.ret = write_at_size(inodes[id], offset, buf)]
    /\ UNCHANGED <<inode_bitmap, data_bitmap, panicked>>

write_at(id, offset, buf) ==
    /\ ~panicked
    /\ CanGrow(data_bitmap, inodes[id], offset + Len(buf))
    /\ LET grown == increase_size(data_bitmap, inodes[id], offset + Len(buf))
       IN  /\ inodes' = [inodes EXCEPT ![id] = DiskInode_write_at(grown, offset, buf)]
           /\ data_bitmap' = data_bitmap \cup
                  SeqRange(increase_size_blocks(data_bitmap, inodes[id], offset + Len(buf)))
           \* block_cache_sync_all()
           /\ dirty' = FALSE
           /\ last' = [NoOp EXCEPT !.op = "write_at", !.id = id, !.off = offset,
                                   !.buf = buf, !.ret = write_at_size(grown, offset, buf)]
           /\ UNCHANGED <<inode_bitmap, panicked>>

read_at(id, offset, len) ==
    /\ ~panicked
    /\ LET data == DiskInode_read_at(inodes[id], offset, len)
       IN  last' = [NoOp EXCEPT !.op = "read_at", !.id = id, !.off = offset, !.len = len,
                                !.ret = Len(data), !.data = data]
    /\ UNCHANGED <<inodes, inode_bitmap, data_bitmap, dirty, panicked>>

\* A clear that reads the size after clear_size has zeroed it.
clear_reads_size_late(id) ==
    /\ ~panicked
    /\ LET size == DiskInode_clear_size(inodes[id]).size
           data_blocks_dealloc == clear_size_blocks(inodes[id])
           called == [NoOp EXCEPT !.op = "clear", !.id = id]
       IN  IF Len(data_blocks_dealloc) # total_blocks(size)
           THEN /\ panicked' = TRUE
                /\ last' = [called EXCEPT !.returned = FALSE]
                /\ UNCHANGED <<inodes, inode_bitmap, data_bitmap, dirty>>
           ELSE /\ inodes' = [inodes EXCEPT ![id] = DiskInode_clear_size(inodes[id])]
                /\ data_bitmap' = data_bitmap \ SeqRange(data_blocks_dealloc)
                /\ dirty' = FALSE
                /\ last' = called
                /\ UNCHANGED <<inode_bitmap, panicked>>

\* clear: clear_size, the assertion on the count of blocks it returned, and
\* dealloc_data on each of them (the block is zeroed and its bit cleared).
clear(id) ==
    /\ ~panicked
    /\ LET size == inodes[id].size
           data_blocks_dealloc == clear_size_blocks(inodes[id])
           called == [NoOp EXCEPT !.op = "clear", !.id = id]
       IN  IF Len(data_blocks_dealloc) # total_blocks(size)
           THEN /\ panicked' = TRUE
                /\ last' = [called EXCEPT !.returned = FALSE]
                /\ UNCHANGED <<inodes, inode_bitmap, data_bitmap, dirty>>
           ELSE /\ inodes' = [inodes EXCEPT ![id] = DiskInode_clear_size(inodes[id])]
                /\ data_bitmap' = data_bitmap \ SeqRange(data_blocks_dealloc)
                \* block_cache_sync_all()
                /\ dirty' = FALSE
                /\ last' = called
                /\ UNCHANGED <<inode_bitmap, panicked>>

(***************************************************************************)
(* The read-only operations: Inode::find, Inode::ls, Inode::state and      *)
(* Inode::get_inode_id_from_name.  A handle is the on-disk position        *)
(* get_disk_inode_pos gives for an inode id, and the model names it by the *)
(* id.                                                                     *)
(***************************************************************************)
\* The closure of ls: the name of every record, slot by slot.
DirNames(disk_inode) ==
    [i \in 1 .. (disk_inode.size \div DIRENT_SZ) |->
        DirEntry_name(ReadDirent(disk_inode, i - 1))]

\* An ls that pushes each name at the front of its vector.
ls_reversed ==
    /\ ~panicked
    /\ LET v == DirNames(inodes[ROOT_INODE])
       IN  last' = [NoOp EXCEPT !.op = "ls",
                                !.data = [i \in 1 .. Len(v) |-> v[Len(v) + 1 - i]]]
    /\ UNCHANGED <<inodes, inode_bitmap, data_bitmap, dirty, panicked>>

ls ==
    /\ ~panicked
    /\ last' = [NoOp EXCEPT !.op = "ls", !.data = DirNames(inodes[ROOT_INODE])]
    /\ UNCHANGED <<inodes, inode_bitmap, data_bitmap, dirty, panicked>>

\* find: the handle of the first record with the name (ret is its inode id),
\* or None (ret = -1).
find(name) ==
    /\ ~panicked
    /\ LET inode_id == find_inode_id(inodes[ROOT_INODE], name)
       IN  last' = [NoOp EXCEPT !.op = "find", !.name = name,
                                !.ret = IF inode_id = <<>> THEN -1 ELSE inode_id[1]]
    /\ UNCHANGED <<inodes, inode_bitmap, data_bitmap, dirty, panicked>>

\* state: (nlinks, is_file) of the record at inode_id, read through `modify`,
\* which marks the cached block as modified.
state(inode_id) ==
    /\ ~panicked
    /\ last' = [NoOp EXCEPT !.op = "state", !.id = inode_id,
                            !.data = <<inodes[inode_id].nlinks, is_file(inodes[inode_id])>>]
    /\ dirty' = TRUE
    /\ UNCHANGED <<inodes, inode_bitmap, data_bitmap, panicked>>

\* get_inode_id_from_name: find_inode_id and unwrap, which panics on None.
get_inode_id_from_name(name) ==
    /\ ~panicked
    /\ LET inode_id == find_inode_id(inodes[ROOT_INODE], name)
           called == [NoOp EXCEPT !.op = "get_inode_id_from_name", !.name = name]
       IN  IF inode_id = <<>>
           THEN /\ panicked' = TRUE
                /\ last' = [called EXCEPT !.returned = FALSE]
           ELSE /\ last' = [called EXCEPT !.ret = inode_id[1]]
                /\ UNCHANGED panicked
    /\ UNCHANGED <<inodes, inode_bitmap, data_bitmap, dirty>>

(***************************************************************************)
(* The operations step by step, for several callers.                       *)
(*                                                                         *)
(* A caller runs one Inode operation at a time.  Its steps are the places  *)
(* where the code takes a lock: `self.fs.lock()` on the spin::Mutex of the *)
(* file system, and `get_block_cache(block_id).lock()` in read_disk_inode, *)
(* modify_disk_inode and the closures on other inodes.  A closure is one   *)
(* step, taken when the lock of its block is free; the root closure of     *)
(* create and linkat is two steps (increase_size, then the write of the    *)
(* record) with the lock held in between.  The locks DiskInode and         *)
(* EasyFileSystem take on data and bitmap blocks inside a closure are      *)
(* taken and dropped within the step.  `held` is the stack of locks a      *)
(* caller holds between steps.  What an operation returns is recorded by   *)
(* the one-step actions above; here `last` stays as it is.                 *)
(***************************************************************************)
FsLock == [kind |-> "fs", block |-> 0]
CacheLock(block_id) == [kind |-> "cache", block |-> block_id]

\* get_disk_inode_pos: the block of the inode area that holds the inode.
get_disk_inode_pos(inode_id) == inode_id \div InodesPerBlock

\* The block-cache lock read_disk_inode / modify_disk_inode take for an inode.
InodeLock(inode_id) == CacheLock(get_disk_inode_pos(inode_id))

\* The caller when its operation has returned.
Idle(self) == [IdleCaller EXCEPT !.counted = self.counted, !.calls = self.calls]

HoldsLock(c, l) == l \in SeqRange(callers[c].held)
LockFree(l) == \A c \in Callers : ~HoldsLock(c, l)

Acquire(self, l) == [self EXCEPT !.held = Append(@, l)]
Release(self, l) == [self EXCEPT !.held = SelectSeq(@, LAMBDA x : x # l)]

\* The operations that begin with `self.fs.lock()`.
LockingOps == {"create", "linkat", "unlinkat", "write_at", "clear",
               "find", "ls", "read_at", "state"}

\* The step after the lock is taken.
FirstStep(op) ==
    CASE op \in {"create", "linkat", "unlinkat"} -> "find"
      [] op \in {"write_at", "clear"} -> "modify"
      [] op \in {"find", "ls"} -> "scan"
      [] OTHER -> "read"

\* The lock the caller's next step takes (none: the empty set).
StepLocks(self) ==
    CASE self.pc = "lock" -> {FsLock}
      [] self.pc \in {"find", "grow", "entry", "scan"} -> {InodeLock(ROOT_INODE)}
      [] self.pc = "init" -> {InodeLock(self.new_inode_id)}
      [] self.pc \in {"nlinks", "target"} -> {InodeLock(self.inode_id[1])}
      [] self.pc \in {"modify", "read"} -> {InodeLock(self.id)}
      [] OTHER -> {}

\* The caller is at the given place and the lock its step takes is free.
At(c, op, pc) ==
    /\ ~panicked
    /\ callers[c].op = op
    /\ callers[c].pc = pc
    /\ \A l \in StepLocks(callers[c]) : LockFree(l)

\* A caller enters one of the operations that begin with `self.fs.lock()`
\* and reaches that line.  Nothing before it looks at the arguments (linkat
\* has compared its two names and found them different; with equal names it
\* returns at 188-190 and takes no step here), so the model draws
\* the operation and its arguments when the lock is granted.
call(c) ==
    LET self == callers[c]
    IN  /\ At(c, "none", "idle")
        /\ self.counted => self.calls < MaxCalls
        /\ callers' = [callers EXCEPT ![c] =
               [self EXCEPT !.pc = "lock", !.calls = IF self.counted THEN @ + 1 ELSE @]]
        /\ UNCHANGED <<inodes, inode_bitmap, data_bitmap, dirty, panicked, last, fd_table, fdtoinode>>

\* get_inode_id_from_name is entered: it takes no file-system lock.
call_get_inode_id_from_name(c, name) ==
    LET self == callers[c]
    IN  /\ At(c, "none", "idle")
        /\ self.counted => self.calls < MaxCalls
        /\ callers' = [callers EXCEPT ![c] =
               [self EXCEPT !.op = "get_inode_id_from_name", !.pc = "scan", !.name = name,
                            !.calls = IF self.counted THEN @ + 1 ELSE @]]
        /\ UNCHANGED <<inodes, inode_bitmap, data_bitmap, dirty, panicked, last, fd_table, fdtoinode>>

\* A lock that is taken whether it is free or not.
lock_fs_unguarded(c, op, name, new, id, buf) ==
    LET self == callers[c]
    IN  /\ ~panicked
        /\ self.pc = "lock"
        /\ callers' = [callers EXCEPT ![c] =
               [Acquire(self, FsLock) EXCEPT !.op = op, !.pc = FirstStep(op),
                    !.name = name, !.new = new, !.id = id, !.buf = buf]]
        /\ UNCHANGED <<inodes, inode_bitmap, data_bitmap, dirty, panicked, last, fd_table, fdtoinode>>

\* `let fs = self.fs.lock();` the spin lock is taken when it is free.
lock_fs(c, op, name, new, id, buf) ==
    LET self == callers[c]
    IN  /\ At(c, "none", "lock")
        /\ callers' = [callers EXCEPT ![c] =
               [Acquire(self, FsLock) EXCEPT !.op = op, !.pc = FirstStep(op),
                    !.name = name, !.new = new, !.id = id, !.buf = buf]]
        /\ UNCHANGED <<inodes, inode_bitmap, data_bitmap, dirty, panicked, last, fd_table, fdtoinode>>

\* The operation aborts: the kernel panics with the caller's locks held.
Abort(c) ==
    /\ panicked' = TRUE
    /\ UNCHANGED <<callers, last, fd_table, fdtoinode>>

\* The operation returns: its guards are dropped.
Return(c) ==
    /\ callers' = [callers EXCEPT ![c] = Idle(callers[c])]
    /\ UNCHANGED <<panicked, last, fd_table, fdtoinode>>

\* The operation goes on to its next step.
Goto(c, self, pc) ==
    /\ callers' = [callers EXCEPT ![c] = [self EXCEPT !.pc = pc]]
    /\ UNCHANGED <<panicked, last, fd_table, fdtoinode>>

\* create, 96-107: the lookup; None if the name exists, else alloc_inode
\* (whose unwrap aborts when the bitmap is full).
create_find(c) ==
    LET self == callers[c]
    IN  /\ At(c, "create", "find")
        /\ IF find_inode_id(inodes[ROOT_INODE], self.name) # <<>>
           THEN /\ Return(c)
                /\ UNCHANGED inode_bitmap
           ELSE IF FreeInodes = {}
           THEN /\ Abort(c)
                /\ UNCHANGED inode_bitmap
           ELSE /\ inode_bitmap' = inode_bitmap \cup {LowestOf(FreeInodes)}
                /\ Goto(c, [self EXCEPT !.new_inode_id = LowestOf(FreeInodes)], "init")
        /\ UNCHANGED <<inodes, data_bitmap, dirty>>

\* create, 109-114: initialize the new inode.
create_init(c) ==
    LET self == callers[c]
    IN  /\ At(c, "create", "init")
        /\ inodes' = [inodes EXCEPT ![self.new_inode_id] = DiskInode_initialize("File")]
        /\ dirty' = TRUE
        /\ Goto(c, self, "grow")
        /\ UNCHANGED <<inode_bitmap, data_bitmap>>

\* The first half of the root closure of create (115-120) and linkat
\* (197-202): modify_disk_inode takes the lock of the root's block, and
\* increase_size grows the directory by one record.  alloc_data's unwrap
\* aborts when the data area is full.
grow_root(c, op) ==
    LET self == callers[c]
        root_inode == inodes[ROOT_INODE]
    IN  /\ At(c, op, "grow")
        /\ IF ~CanAppend(root_inode)
           THEN /\ Abort(c)
                /\ UNCHANGED <<inodes, data_bitmap, dirty>>
           ELSE /\ inodes' = [inodes EXCEPT ![ROOT_INODE] = GrowDir(root_inode)]
                /\ data_bitmap' = AppendBitmap(root_inode)
                /\ dirty' = TRUE
                /\ Goto(c, Acquire(self, InodeLock(ROOT_INODE)), "write")
        /\ UNCHANGED inode_bitmap

\* The record written in the last slot of the grown directory.
WriteLast(root_inode, dirent) ==
    DiskInode_write_at(root_inode, root_inode.size - DIRENT_SZ, dirent)

create_grow(c) == grow_root(c, "create")

\* create, 122-128: the record is written and the closure ends.
create_write(c) ==
    LET self == callers[c]
    IN  /\ At(c, "create", "write")
        /\ inodes' = [inodes EXCEPT ![ROOT_INODE] =
               WriteLast(inodes[ROOT_INODE], DirEntry_new(self.name, self.new_inode_id))]
        /\ dirty' = TRUE
        /\ Goto(c, Release(self, InodeLock(ROOT_INODE)), "sync")
        /\ UNCHANGED <<inode_bitmap, data_bitmap>>

\* create, 130-139: block_cache_sync_all, and the handle is returned.
create_sync(c) ==
    /\ At(c, "create", "sync")
    /\ dirty' = FALSE
    /\ Return(c)
    /\ UNCHANGED <<inodes, inode_bitmap, data_bitmap>>

\* linkat, 192-194: old_name is looked up.
linkat_find(c) ==
    LET self == callers[c]
    IN  /\ At(c, "linkat", "find")
        /\ Goto(c, [self EXCEPT !.inode_id = find_inode_id(inodes[ROOT_INODE], self.name)],
                "grow")
        /\ UNCHANGED <<inodes, inode_bitmap, data_bitmap, dirty>>

linkat_grow(c) == grow_root(c, "linkat")

\* A linkat whose nlinks closure is nested in the closure of the directory:
\* the lock of the root's block is still held when the record is written.
linkat_write_nested(c) ==
    LET self == callers[c]
    IN  /\ At(c, "linkat", "write")
        /\ IF self.inode_id = <<>>
           THEN /\ Abort(c)
                /\ UNCHANGED <<inodes, dirty>>
           ELSE /\ inodes' = [inodes EXCEPT ![ROOT_INODE] =
                       WriteLast(inodes[ROOT_INODE],
                                 DirEntry_new(self.new, self.inode_id[1]))]
                /\ dirty' = TRUE
                /\ Goto(c, self, "nlinks")
        /\ UNCHANGED <<inode_bitmap, data_bitmap>>

\* linkat, 204-211: inode_id.unwrap() aborts if old_name was absent; else the
\* record (new_name, inode_id) is written and the closure ends.
linkat_write(c) ==
    LET self == callers[c]
    IN  /\ At(c, "linkat", "write")
        /\ IF self.inode_id = <<>>
           THEN /\ Abort(c)
                /\ UNCHANGED <<inodes, dirty>>
           ELSE /\ inodes' = [inodes EXCEPT ![ROOT_INODE] =
                       WriteLast(inodes[ROOT_INODE],
                                 DirEntry_new(self.new, self.inode_id[1]))]
                /\ dirty' = TRUE
                /\ Goto(c, Release(self, InodeLock(ROOT_INODE)), "nlinks")
        /\ UNCHANGED <<inode_bitmap, data_bitmap>>

\* linkat, 213-220: nlinks += 1 on the target, and 0 is returned.
linkat_nlinks(c) ==
    LET self == callers[c]
    IN  /\ At(c, "linkat", "nlinks")
        /\ inodes' = [inodes EXCEPT ![self.inode_id[1]].nlinks = @ + 1]
        /\ dirty' = TRUE
        /\ Return(c)
        /\ UNCHANGED <<inode_bitmap, data_bitmap>>

\* unlinkat, 251-254 and 283: the lookup; -1 if the name is absent.
unlinkat_find(c) ==
    LET self == callers[c]
        inode_id == find_inode_id(inodes[ROOT_INODE], self.name)
    IN  /\ At(c, "unlinkat", "find")
        /\ IF inode_id = <<>>
           THEN Return(c)
           ELSE Goto(c, [self EXCEPT !.inode_id = inode_id], "target")
        /\ UNCHANGED <<inodes, inode_bitmap, data_bitmap, dirty>>

\* unlinkat, 255-263: the closure on the target inode.
unlinkat_target(c) ==
    LET self == callers[c]
        i_id == self.inode_id[1]
    IN  /\ At(c, "unlinkat", "target")
        /\ IF inodes[i_id].nlinks = 0
           THEN /\ Abort(c)
                /\ UNCHANGED <<inodes, dirty>>
           ELSE /\ inodes' = [inodes EXCEPT ![i_id] = unlink_target(inodes[i_id])]
                /\ dirty' = TRUE
                /\ Goto(c, self, "entry")
        /\ UNCHANGED <<inode_bitmap, data_bitmap>>

\* One pass of the inner loop of modify_entry (320-321): slot j takes the
\* record of slot j + 1.
ShiftOne(disk_inode, j) ==
    DiskInode_write_at(disk_inode, j * DIRENT_SZ,
        DiskInode_read_at(disk_inode, (j + 1) * DIRENT_SZ, DIRENT_SZ))

\* A pass of the inner loop at slot j of the directory closure of unlinkat.
\* After the last pass (or when there is none) the size is set to one record
\* less (324-325), the closure ends and unlinkat returns 0; else the loop
\* goes on with the lock of the root's block held.
shift_root(c, self, j) ==
    LET root_inode == inodes[ROOT_INODE]
        file_count == root_inode.size \div DIRENT_SZ
        shifted == IF j < file_count - 1 THEN ShiftOne(root_inode, j) ELSE root_inode
    IN  /\ dirty' = TRUE
        /\ IF j + 1 >= file_count - 1
           THEN /\ inodes' = [inodes EXCEPT ![ROOT_INODE] =
                       [shifted EXCEPT !.size = (file_count - 1) * DIRENT_SZ]]
                /\ Return(c)
           ELSE /\ inodes' = [inodes EXCEPT ![ROOT_INODE] = shifted]
                /\ Goto(c, [self EXCEPT !.j = j + 1], "shift")
        /\ UNCHANGED <<inode_bitmap, data_bitmap>>

\* unlinkat, 264-281, and modify_entry, 312-321: the outer loop finds the
\* first record with the name and the inner loop starts there.
unlinkat_entry(c) ==
    LET self == callers[c]
        hits == MatchingSlots(inodes[ROOT_INODE], self.name)
    IN  /\ At(c, "unlinkat", "entry")
        /\ IF hits = {}
           THEN /\ Return(c)
                /\ UNCHANGED <<inodes, inode_bitmap, data_bitmap, dirty>>
           ELSE shift_root(c, Acquire(self, InodeLock(ROOT_INODE)), LowestOf(hits))

\* modify_entry, 319-325: the next pass of the inner loop.
unlinkat_shift(c) ==
    /\ At(c, "unlinkat", "shift")
    /\ shift_root(c, callers[c], callers[c].j)

\* write_at, 166-169: the closure grows the inode and writes the bytes.
write_at_modify(c) ==
    LET self == callers[c]
        new_size == Len(self.buf)
        grown == increase_size(data_bitmap, inodes[self.id], new_size)
    IN  /\ At(c, "write_at", "modify")
        /\ IF ~CanGrow(data_bitmap, inodes[self.id], new_size)
           THEN /\ Abort(c)
                /\ UNCHANGED <<inodes, data_bitmap, dirty>>
           ELSE /\ inodes' = [inodes EXCEPT ![self.id] = DiskInode_write_at(grown, 0, self.buf)]
                /\ data_bitmap' = data_bitmap \cup
                       SeqRange(increase_size_blocks(data_bitmap, inodes[self.id], new_size))
                /\ dirty' = TRUE
                /\ Goto(c, self, "sync")
        /\ UNCHANGED inode_bitmap

\* write_at, 170-171: block_cache_sync_all, and the count is returned.
write_at_sync(c) ==
    /\ At(c, "write_at", "sync")
    /\ dirty' = FALSE
    /\ Return(c)
    /\ UNCHANGED <<inodes, inode_bitmap, data_bitmap>>

\* A clear that gives the blocks back and leaves the pointers in the inode.
clear_modify_keeps_pointers(c) ==
    LET self == callers[c]
    IN  /\ At(c, "clear", "modify")
        /\ inodes' = [inodes EXCEPT ![self.id].size = 0]
        /\ data_bitmap' = data_bitmap \ SeqRange(clear_size_blocks(inodes[self.id]))
        /\ dirty' = TRUE
        /\ Goto(c, self, "sync")
        /\ UNCHANGED inode_bitmap

\* clear, 176-183: clear_size, the assertion, dealloc_data on each block.
clear_modify(c) ==
    LET self == callers[c]
        data_blocks_dealloc == clear_size_blocks(inodes[self.id])
    IN  /\ At(c, "clear", "modify")
        /\ IF Len(data_blocks_dealloc) # total_blocks(inodes[self.id].size)
           THEN /\ Abort(c)
                /\ UNCHANGED <<inodes, data_bitmap, dirty>>
           ELSE /\ inodes' = [inodes EXCEPT ![self.id] = DiskInode_clear_size(inodes[self.id])]
                /\ data_bitmap' = data_bitmap \ SeqRange(data_blocks_dealloc)
                /\ dirty' = TRUE
                /\ Goto(c, self, "sync")
        /\ UNCHANGED inode_bitmap

\* clear, 184-185.
clear_sync(c) ==
    /\ At(c, "clear", "sync")
    /\ dirty' = FALSE
    /\ Return(c)
    /\ UNCHANGED <<inodes, inode_bitmap, data_bitmap>>

\* find, 64-74: the scan of the directory.
find_scan(c) ==
    /\ At(c, "find", "scan")
    /\ Return(c)
    /\ UNCHANGED <<inodes, inode_bitmap, data_bitmap, dirty>>

\* ls, 144-156: the scan of the directory.
ls_scan(c) ==
    /\ At(c, "ls", "scan")
    /\ Return(c)
    /\ UNCHANGED <<inodes, inode_bitmap, data_bitmap, dirty>>

\* read_at, 161.
read_at_read(c) ==
    /\ At(c, "read_at", "read")
    /\ Return(c)
    /\ UNCHANGED <<inodes, inode_bitmap, data_bitmap, dirty>>

\* A state whose `modify` closure writes the count it reads.
state_read_writes(c) ==
    /\ At(c, "state", "read")
    /\ inodes' = [inodes EXCEPT ![callers[c].id].nlinks = @ + 1]
    /\ dirty' = TRUE
    /\ Return(c)
    /\ UNCHANGED <<inode_bitmap, data_bitmap>>

\* state, 293-302: the record is read through `modify`.
state_read(c) ==
    /\ At(c, "state", "read")
    /\ dirty' = TRUE
    /\ Return(c)
    /\ UNCHANGED <<inodes, inode_bitmap, data_bitmap>>

\* get_inode_id_from_name, 306-309: the scan, with no file-system lock; the
\* unwrap aborts when the name is absent.
get_inode_id_from_name_scan(c) ==
    /\ At(c, "get_inode_id_from_name", "scan")
    /\ IF find_inode_id(inodes[ROOT_INODE], callers[c].name) = <<>>
       THEN Abort(c)
       ELSE Return(c)
    /\ UNCHANGED <<inodes, inode_bitmap, data_bitmap, dirty>>

(***************************************************************************)
(* Specifications.  In the first four a single caller runs every operation *)
(* to its end, as one step.                                                *)
(***************************************************************************)
\* The directory operations, and a short write that gives files data blocks.
Next ==
    \/ \E name \in Names : create(name) /\ UNCHANGED <<callers, fd_table, fdtoinode>>
    \/ \E old_name \in Names, new_name \in Names :
           linkat(old_name, new_name) /\ UNCHANGED <<callers, fd_table, fdtoinode>>
    \/ \E name \in Names : unlinkat(name) /\ UNCHANGED <<callers, fd_table, fdtoinode>>
    \/ \E id \in FileHandles, offset \in Offsets, buf \in SmallBufs :
           write_at(id, offset, buf) /\ UNCHANGED <<callers, fd_table, fdtoinode>>
    \/ \E id \in FileHandles : clear(id) /\ UNCHANGED <<callers, fd_table, fdtoinode>>

Spec == Init /\ [][Next]_vars

\* The directory operations alone.
NextDir ==
    \/ \E name \in Names : create(name) /\ UNCHANGED <<callers, fd_table, fdtoinode>>
    \/ \E old_name \in Names, new_name \in Names :
           linkat(old_name, new_name) /\ UNCHANGED <<callers, fd_table, fdtoinode>>
    \/ \E name \in Names : unlinkat(name) /\ UNCHANGED <<callers, fd_table, fdtoinode>>

SpecDir == Init /\ [][NextDir]_vars

\* The directory operations and the lookups.
NextLookup ==
    \/ \E name \in Names : create(name) /\ UNCHANGED <<callers, fd_table, fdtoinode>>
    \/ \E old_name \in Names, new_name \in Names :
           linkat(old_name, new_name) /\ UNCHANGED <<callers, fd_table, fdtoinode>>
    \/ \E name \in Names : unlinkat(name) /\ UNCHANGED <<callers, fd_table, fdtoinode>>
    \/ \E name \in Names : find(name) /\ UNCHANGED <<callers, fd_table, fdtoinode>>
    \/ ls /\ UNCHANGED <<callers, fd_table, fdtoinode>>

SpecLookup == Init /\ [][NextLookup]_vars

\* Byte I/O on the files of the directory.
NextIO ==
    \/ \E name \in Names : create(name) /\ UNCHANGED <<callers, fd_table, fdtoinode>>
    \/ \E id \in FileHandles, offset \in Offsets, buf \in IOBufs :
           write_at(id, offset, buf) /\ UNCHANGED <<callers, fd_table, fdtoinode>>
    \/ \E id \in FileHandles, offset \in Offsets, buf \in IOBufs :
           read_at(id, offset, Len(buf)) /\ UNCHANGED <<callers, fd_table, fdtoinode>>
    \/ \E id \in FileHandles : clear(id) /\ UNCHANGED <<callers, fd_table, fdtoinode>>

SpecIO == Init /\ [][NextIO]_vars

\* Writes at two offsets, with clear and unlinkat emptying the files.
GrowOffsets == {0, BLOCK_SZ \div 2}
GrowBufs == {Pattern(len, 16) : len \in {1, BLOCK_SZ + 1}}

NextGrow ==
    \/ \E name \in Names : create(name) /\ UNCHANGED <<callers, fd_table, fdtoinode>>
    \/ \E name \in Names : unlinkat(name) /\ UNCHANGED <<callers, fd_table, fdtoinode>>
    \/ \E id \in FileHandles, offset \in GrowOffsets, buf \in GrowBufs :
           write_at(id, offset, buf) /\ UNCHANGED <<callers, fd_table, fdtoinode>>
    \/ \E id \in FileHandles : clear(id) /\ UNCHANGED <<callers, fd_table, fdtoinode>>

SpecGrow == Init /\ [][NextGrow]_vars

\* The handles callers hold: those create has returned.
ReturnedHandles ==
    {id \in FileHandles :
        /\ is_file(inodes[id])
        /\ \A c \in Callers : ~(callers[c].op = "create" /\ callers[c].new_inode_id = id)}

\* The steps of a caller inside an operation.
step(c) ==
    \/ \E name \in Names : lock_fs(c, "create", name, <<>>, 0, <<>>)
    \/ \E old_name \in Names : \E new_name \in Names \ {old_name} :
           lock_fs(c, "linkat", old_name, new_name, 0, <<>>)
    \/ \E name \in Names : lock_fs(c, "unlinkat", name, <<>>, 0, <<>>)
    \/ \E id \in ReturnedHandles, buf \in SmallBufs : lock_fs(c, "write_at", <<>>, <<>>, id, buf)
    \/ \E id \in ReturnedHandles : lock_fs(c, "clear", <<>>, <<>>, id, <<>>)
    \/ \E name \in Names : lock_fs(c, "find", name, <<>>, 0, <<>>)
    \/ lock_fs(c, "ls", <<>>, <<>>, 0, <<>>)
    \/ \E id \in ReturnedHandles, buf \in SmallBufs : lock_fs(c, "read_at", <<>>, <<>>, id, buf)
    \/ \E id \in ReturnedHandles : lock_fs(c, "state", <<>>, <<>>, id, <<>>)
    \/ create_find(c)
    \/ create_init(c)
    \/ create_grow(c)
    \/ create_write(c)
    \/ create_sync(c)
    \/ linkat_find(c)
    \/ linkat_grow(c)
    \/ linkat_write(c)
    \/ linkat_nlinks(c)
    \/ unlinkat_find(c)
    \/ unlinkat_target(c)
    \/ unlinkat_entry(c)
    \/ unlinkat_shift(c)
    \/ write_at_modify(c)
    \/ write_at_sync(c)
    \/ clear_modify(c)
    \/ clear_sync(c)
    \/ find_scan(c)
    \/ ls_scan(c)
    \/ read_at_read(c)
    \/ state_read(c)
    \/ get_inode_id_from_name_scan(c)

\* Several callers, every operation, step by step.
NextConc ==
    \/ \E c \in Callers : call(c)
    \/ \E c \in Callers, name \in Names : call_get_inode_id_from_name(c, name)
    \/ \E c \in Callers : step(c)

SpecConc == Init /\ [][NextConc]_vars

\* The same for callers that issue MaxCalls operations each.  A caller inside
\* an operation keeps running: it spins on a lock until the lock is free and
\* takes its next step otherwise.
SpecFair ==
    /\ InitCounted
    /\ [][NextConc]_vars
    /\ \A c \in Callers : WF_vars(step(c))

(***************************************************************************)
(* The file system calls of the kernel (os/src/syscall/fs.rs), for the     *)
(* current task.  A call runs to its end before the next one starts.  The  *)
(* fd table, alloc_fd, open_file, OSInode and the console files are not in *)
(* the repository's source here and follow rCore: alloc_fd hands out the   *)
(* lowest empty slot or a new one at the end; open_file looks the name up, *)
(* creates the file under CREATE when it is absent and clears it when it   *)
(* is present; an OSInode writes and reads at its own offset.              *)
(***************************************************************************)
\* OpenFlags as the model passes them; CREATE stands for CREATE | WRONLY.
OpenFlags == {"RDONLY", "WRONLY", "CREATE"}

\* OpenFlags::read_write: (readable, writable).
read_write(flags) == IF flags = "RDONLY" THEN <<TRUE, FALSE>> ELSE <<FALSE, TRUE>>

\* alloc_fd: the lowest empty slot, or the slot past the end.
alloc_fd(table) ==
    LET empty == {fd \in 0 .. (Len(table) - 1) : table[fd + 1] = <<>>}
    IN  IF empty # {} THEN LowestOf(empty) ELSE Len(table)

\* fd_table[fd] = Some(file), the table growing by one slot when fd is new.
SetFd(table, fd, file) ==
    IF fd = Len(table) THEN Append(table, <<file>>)
    ELSE [table EXCEPT ![fd + 1] = <<file>>]

\* The OSInode open_file builds on the inode it found or created.
OSInode_new(flags, inode_id) ==
    [kind |-> "file", readable |-> read_write(flags)[1], writable |-> read_write(flags)[2],
     inode_id |-> inode_id, offset |-> 0]

\* sys_open, 72-76: the file was opened on `opened`; the id the name resolves
\* to now is noted under the new fd, the file is put in the table, and the fd
\* is returned.
install_fd(path, flags, opened) ==
    LET fd == alloc_fd(fd_table)
        inode_id == find_inode_id(inodes'[ROOT_INODE], path)
    IN  IF inode_id = <<>>
        THEN /\ panicked' = TRUE
             /\ last' = [NoOp EXCEPT !.op = "sys_open", !.name = path, !.returned = FALSE]
             /\ UNCHANGED <<fd_table, fdtoinode>>
        ELSE /\ fdtoinode' = [fdtoinode EXCEPT ![fd] = inode_id[1]]
             /\ fd_table' = SetFd(fd_table, fd, OSInode_new(flags, opened))
             /\ last' = [NoOp EXCEPT !.op = "sys_open", !.name = path, !.ret = fd]
             /\ UNCHANGED panicked

\* sys_open, 65-80.  open_file: under CREATE the file is cleared if the name
\* exists and created if not; else the name is looked up, and None gives -1.
sys_open(path, flags) ==
    LET found == find_inode_id(inodes[ROOT_INODE], path)
        root_inode == inodes[ROOT_INODE]
        new_inode_id == LowestOf(FreeInodes)
    IN  /\ ~panicked
        /\ alloc_fd(fd_table) < MaxFds
        /\ IF flags = "CREATE" /\ found = <<>>
           THEN /\ FreeInodes # {}
                /\ CanAppend(root_inode)
                /\ inode_bitmap' = inode_bitmap \cup {new_inode_id}
                /\ inodes' = [inodes EXCEPT
                       ![new_inode_id] = DiskInode_initialize("File"),
                       ![ROOT_INODE] = AppendDirent(root_inode, DirEntry_new(path, new_inode_id))]
                /\ data_bitmap' = AppendBitmap(root_inode)
                /\ dirty' = FALSE
                /\ install_fd(path, flags, new_inode_id)
           ELSE IF flags = "CREATE"
           THEN /\ inodes' = [inodes EXCEPT ![found[1]] = DiskInode_clear_size(inodes[found[1]])]
                /\ data_bitmap' = data_bitmap \ SeqRange(clear_size_blocks(inodes[found[1]]))
                /\ dirty' = FALSE
                /\ install_fd(path, flags, found[1])
                /\ UNCHANGED inode_bitmap
           ELSE IF found = <<>>
           THEN /\ last' = [NoOp EXCEPT !.op = "sys_open", !.name = path, !.ret = -1]
                /\ UNCHANGED <<inodes, inode_bitmap, data_bitmap, dirty, panicked,
                               fd_table, fdtoinode>>
           ELSE /\ inodes' = inodes
                /\ install_fd(path, flags, found[1])
                /\ UNCHANGED <<inode_bitmap, data_bitmap, dirty>>

\* sys_close, 82-94.
sys_close(fd) ==
    /\ ~panicked
    /\ IF fd >= Len(fd_table) \/ fd_table[fd + 1] = <<>>
       THEN /\ last' = [NoOp EXCEPT !.op = "sys_close", !.id = fd, !.ret = -1]
            /\ UNCHANGED fd_table
       ELSE /\ fd_table' = [fd_table EXCEPT ![fd + 1] = <<>>]
            /\ last' = [NoOp EXCEPT !.op = "sys_close", !.id = fd, !.ret = 0]
    /\ UNCHANGED <<inodes, inode_bitmap, data_bitmap, dirty, panicked, fdtoinode>>

\* File::write of the file in a slot: an OSInode writes the buffer at its
\* offset with Inode::write_at and advances; Stdout prints and changes nothing.
file_write(fd, buf) ==
    LET file == fd_table[fd + 1][1]
        id == file.inode_id
        end == file.offset + Len(buf)
        grown == increase_size(data_bitmap, inodes[id], end)
        write_size == write_at_size(grown, file.offset, buf)
    IN  IF file.kind = "file"
        THEN /\ end <= MaxOffset
             /\ CanGrow(data_bitmap, inodes[id], end)
             /\ inodes' = [inodes EXCEPT ![id] = DiskInode_write_at(grown, file.offset, buf)]
             /\ data_bitmap' = data_bitmap \cup
                    SeqRange(increase_size_blocks(data_bitmap, inodes[id], end))
             /\ dirty' = FALSE
             /\ fd_table' = [fd_table EXCEPT ![fd + 1] =
                                <<[file EXCEPT !.offset = file.offset + write_size]>>]
             /\ last' = [NoOp EXCEPT !.op = "sys_write", !.id = fd, !.off = file.offset,
                                     !.buf = buf, !.ret = write_size]
        ELSE /\ last' = [NoOp EXCEPT !.op = "sys_write", !.id = fd, !.buf = buf,
                                     !.ret = Len(buf)]
             /\ UNCHANGED <<inodes, data_bitmap, dirty, fd_table>>

\* A sys_write that does not ask whether the file is writable.
sys_write_any_file(fd, buf) ==
    /\ ~panicked
    /\ IF fd >= Len(fd_table) \/ fd_table[fd + 1] = <<>>
       THEN /\ last' = [NoOp EXCEPT !.op = "sys_write", !.id = fd, !.buf = buf, !.ret = -1]
            /\ UNCHANGED <<inodes, data_bitmap, dirty, fd_table>>
       ELSE file_write(fd, buf)
    /\ UNCHANGED <<inode_bitmap, panicked, fdtoinode>>

\* sys_write, 22-41.
sys_write(fd, buf) ==
    /\ ~panicked
    /\ IF fd >= Len(fd_table) \/ fd_table[fd + 1] = <<>>
       THEN /\ last' = [NoOp EXCEPT !.op = "sys_write", !.id = fd, !.buf = buf, !.ret = -1]
            /\ UNCHANGED <<inodes, data_bitmap, dirty, fd_table>>
       ELSE IF ~fd_table[fd + 1][1].writable
       THEN /\ last' = [NoOp EXCEPT !.op = "sys_write", !.id = fd, !.buf = buf, !.ret = -1]
            /\ UNCHANGED <<inodes, data_bitmap, dirty, fd_table>>
       ELSE file_write(fd, buf)
    /\ UNCHANGED <<inode_bitmap, panicked, fdtoinode>>

\* File::read of the file in a slot: an OSInode reads at its offset with
\* Inode::read_at and advances by what it read; Stdin gives one character.
file_read(fd, len) ==
    LET file == fd_table[fd + 1][1]
        data == DiskInode_read_at(inodes[file.inode_id], file.offset, len)
    IN  IF file.kind = "file"
        THEN /\ fd_table' = [fd_table EXCEPT ![fd + 1] =
                                <<[file EXCEPT !.offset = file.offset + Len(data)]>>]
             /\ last' = [NoOp EXCEPT !.op = "sys_read", !.id = fd, !.off = file.offset,
                                     !.len = len, !.ret = Len(data), !.data = data]
        ELSE /\ last' = [NoOp EXCEPT !.op = "sys_read", !.id = fd, !.len = len, !.ret = 1]
             /\ UNCHANGED fd_table

\* sys_read, 43-63.
sys_read(fd, len) ==
    /\ ~panicked
    /\ IF fd >= Len(fd_table) \/ fd_table[fd + 1] = <<>>
       THEN /\ last' = [NoOp EXCEPT !.op = "sys_read", !.id = fd, !.len = len, !.ret = -1]
            /\ UNCHANGED fd_table
       ELSE IF ~fd_table[fd + 1][1].readable
       THEN /\ last' = [NoOp EXCEPT !.op = "sys_read", !.id = fd, !.len = len, !.ret = -1]
            /\ UNCHANGED fd_table
       ELSE file_read(fd, len)
    /\ UNCHANGED <<inodes, inode_bitmap, data_bitmap, dirty, panicked, fdtoinode>>

\* A sys_fstat that reports the fd as the inode number.
sys_fstat_reports_fd(fd) ==
    /\ ~panicked
    /\ fd \in Fds
    /\ fdtoinode[fd] # Unset
    /\ dirty' = TRUE
    /\ last' = [NoOp EXCEPT !.op = "sys_fstat", !.id = fd, !.ret = 0,
                            !.data = <<fd, inodes[fdtoinode[fd]].nlinks>>]
    /\ UNCHANGED <<inodes, inode_bitmap, data_bitmap, panicked, fd_table, fdtoinode>>

\* sys_fstat, 97-127: state(fdtoinode[fd]) gives nlink; ino is fdtoinode[fd];
\* 0 is returned.  The model calls it on the fds sys_open has noted.
sys_fstat(fd) ==
    /\ ~panicked
    /\ fd \in Fds
    /\ fdtoinode[fd] # Unset
    /\ dirty' = TRUE
    /\ last' = [NoOp EXCEPT !.op = "sys_fstat", !.id = fd, !.ret = 0,
                            !.data = <<fdtoinode[fd], inodes[fdtoinode[fd]].nlinks>>]
    /\ UNCHANGED <<inodes, inode_bitmap, data_bitmap, panicked, fd_table, fdtoinode>>

\* sys_linkat, 130-141, and sys_unlinkat, 143-152: the names go to
\* ROOT_INODE.linkat and ROOT_INODE.unlinkat and the status comes back.
sys_linkat(old_name, new_name) ==
    /\ linkat(old_name, new_name)
    /\ UNCHANGED <<fd_table, fdtoinode>>

sys_unlinkat(name) ==
    /\ unlinkat(name)
    /\ UNCHANGED <<fd_table, fdtoinode>>

\* The fds the model passes: those of the table and one past its end.
FdArgs == 0 .. MaxFds
\* The fds past the console files, which stay open while names are linked.
FileFds == 3 .. (MaxFds - 1)
\* Opening for reading, and creating.
StatFlags == {"RDONLY", "CREATE"}

\* Opening, closing and querying files whose names are linked and unlinked.
NextStat ==
    \/ \E path \in Names, flags \in StatFlags : sys_open(path, flags) /\ UNCHANGED callers
    \/ \E fd \in FileFds : sys_close(fd) /\ UNCHANGED callers
    \/ \E fd \in FileFds : sys_fstat(fd) /\ UNCHANGED callers
    \/ \E old_name \in Names, new_name \in Names :
           sys_linkat(old_name, new_name) /\ UNCHANGED callers
    \/ \E name \in Names : sys_unlinkat(name) /\ UNCHANGED callers

SpecStat == Init /\ [][NextStat]_vars

\* The fds closed: stdin, the fds past the console files, and one past the end.
CloseArgs == {0} \cup FileFds \cup {MaxFds}

\* Opening one name, closing, reading and writing, the console files included.
NextFd ==
    \/ \E flags \in OpenFlags : sys_open(NameA, flags) /\ UNCHANGED callers
    \/ \E fd \in CloseArgs : sys_close(fd) /\ UNCHANGED callers
    \/ \E fd \in FdArgs : sys_read(fd, 1) /\ UNCHANGED callers
    \/ \E fd \in FdArgs, buf \in SmallBufs : sys_write(fd, buf) /\ UNCHANGED callers

SpecFd == Init /\ [][NextFd]_vars

(***************************************************************************)
(* What the claims speak of.                                               *)
(***************************************************************************)
Root == inodes[ROOT_INODE]

\* The records of a directory, in slot order.
RecordsOf(disk_inode) ==
    [i \in 1 .. (disk_inode.size \div DIRENT_SZ) |->
        LET dirent == ReadDirent(disk_inode, i - 1)
        IN  [name |-> DirEntry_name(dirent), inode_id |-> DirEntry_inode_id(dirent)]]

Records == RecordsOf(Root)

\* s without its element at position i.
RemoveAt(s, i) == [j \in 1 .. (Len(s) - 1) |-> IF j < i THEN s[j] ELSE s[j + 1]]

\* The positions of the records that carry the name.
PositionsOf(recs, name) == {i \in DOMAIN recs : recs[i].name = name}

\* The blocks an inode holds: the pointers that are set.
HeldBlocks(disk_inode) ==
    {disk_inode.direct[k] : k \in DOMAIN disk_inode.direct} \ {0}

\* The latest step was the named operation and it returned.
Returned(l, op) == l.op = op /\ l.returned

\* The latest step was a mutating operation that returned success.
MutatorSucceeded(l) ==
    \/ Returned(l, "create") /\ l.ret # -1
    \/ Returned(l, "linkat") /\ l.ret = 0
    \/ Returned(l, "unlinkat") /\ l.ret = 0
    \/ Returned(l, "write_at")
    \/ Returned(l, "clear")

(***************************************************************************)
(* C1.  Link-count accounting: a file made by create starts with           *)
(* nlinks = 1; every linkat(old, new) that returns 0 raises by exactly 1   *)
(* the nlinks of the inode old resolved to; every unlinkat(name) that      *)
(* returns 0 lowers by exactly 1 the nlinks of the inode name resolved to. *)
(***************************************************************************)
C1_LinkCountStep ==
    LET target == find_inode_id(Root, last'.name)
    IN  /\ (Returned(last', "create") /\ last'.ret # -1)
               => inodes'[last'.ret].nlinks = 1
        /\ (Returned(last', "linkat") /\ last'.ret = 0)
               => /\ target # <<>>
                  /\ inodes'[target[1]].nlinks = inodes[target[1]].nlinks + 1
        /\ (Returned(last', "unlinkat") /\ last'.ret = 0)
               => /\ target # <<>>
                  /\ inodes'[target[1]].nlinks = inodes[target[1]].nlinks - 1

C1_LinkCount == [][C1_LinkCountStep]_vars

\* create("a"), linkat("a","b"), unlinkat("a"): the file is left under "b"
\* alone, with nlinks = 1.
C1_Witness ==
    /\ Returned(last, "unlinkat") /\ last.ret = 0 /\ last.name = NameA
    /\ Len(Records) = 1
    /\ Records[1].name = NameB
    /\ inodes[Records[1].inode_id].nlinks = 1

(***************************************************************************)
(* C2.  When unlinkat lowers an inode's nlinks to 0, the inode's size      *)
(* becomes 0 and every data block it held is freed in the allocator.       *)
(***************************************************************************)
C2_ReclaimStep ==
    \A id \in FileHandles :
        (/\ Returned(last', "unlinkat") /\ last'.ret = 0
         /\ inodes[id].nlinks > 0
         /\ inodes'[id].nlinks = 0)
            => /\ inodes'[id].size = 0
               /\ HeldBlocks(inodes[id]) \cap data_bitmap' = {}

C2_UnlinkReclaims == [][C2_ReclaimStep]_vars

(***************************************************************************)
(* C3.  Every mutating operation (create, write_at, clear, linkat,         *)
(* unlinkat) that returns success has flushed all dirty cached blocks      *)
(* after its last mutation: no cached block is dirty when it returns.      *)
(***************************************************************************)
C3_FlushedOnReturn == MutatorSucceeded(last) => ~dirty

(***************************************************************************)
(* C4.  Directory packing: whenever the operations so far have returned,   *)
(* the directory's size is a multiple of DIRENT_SZ and every slot below    *)
(* the size holds a record written by create or linkat (no holes).         *)
(***************************************************************************)
IsWrittenRecord(dirent) ==
    \E name \in Names, id \in FileHandles : dirent = DirEntry_new(name, id)

C4_Packed ==
    ~panicked =>
        /\ Root.size % DIRENT_SZ = 0
        /\ Len(Records) * DIRENT_SZ = Root.size
        /\ \A i \in 0 .. (Len(Records) - 1) : IsWrittenRecord(ReadDirent(Root, i))

\* A directory that has grown past its first block and then lost a record.
C4_Witness ==
    /\ Returned(last, "unlinkat") /\ last.ret = 0
    /\ Len(Records) = DirentsPerBlock
    /\ Root.direct[1] # 0

(***************************************************************************)
(* C5.  Size/block consistency: for every inode, the number of data blocks *)
(* allocated to it equals total_blocks of its size.                        *)
(***************************************************************************)
C5_BlocksMatchSize ==
    ~panicked =>
        \A id \in inode_bitmap :
            Cardinality(HeldBlocks(inodes[id])) = total_blocks(inodes[id].size)

(***************************************************************************)
(* C6.  Unlink compaction: unlinkat(name) on a directory with a record of  *)
(* that name returns 0 and leaves the records without the first one of     *)
(* that name, the others in their order, and the size one record smaller.  *)
(***************************************************************************)
C6_CompactionStep ==
    (last'.op = "unlinkat" /\ PositionsOf(Records, last'.name) # {})
        => /\ last'.returned /\ last'.ret = 0
           /\ Records' = RemoveAt(Records, LowestOf(PositionsOf(Records, last'.name)))
           /\ Root'.size = Root.size - DIRENT_SZ

C6_UnlinkCompaction == [][C6_CompactionStep]_vars

\* Two records carried the name and the later one is still there.
C6_Witness ==
    /\ Returned(last, "unlinkat") /\ last.ret = 0
    /\ PositionsOf(Records, last.name) # {}
    /\ Len(Records) = 2

(***************************************************************************)
(* C7.  Create rejection: create(name) on a directory that has a record of *)
(* that name returns None and changes nothing: not the records, the size,  *)
(* any nlinks, nor the inode and data bitmaps.                             *)
(***************************************************************************)
C7_RejectStep ==
    (last'.op = "create" /\ PositionsOf(Records, last'.name) # {})
        => /\ last'.returned /\ last'.ret = -1
           /\ UNCHANGED <<inodes, inode_bitmap, data_bitmap>>

C7_CreateRejection == [][C7_RejectStep]_vars

C7_Witness ==
    /\ Returned(last, "create") /\ last.ret = -1
    /\ PositionsOf(Records, last.name) # {}

(***************************************************************************)
(* C8.  Self-link rejection: linkat(old, new) with old = new returns -1    *)
(* and leaves the records, the size and every nlinks unchanged, whether or *)
(* not the name exists.                                                    *)
(***************************************************************************)
C8_SelfLinkStep ==
    (last'.op = "linkat" /\ last'.name = last'.new)
        => /\ last'.returned /\ last'.ret = -1
           /\ UNCHANGED <<inodes, inode_bitmap, data_bitmap>>

C8_SelfLinkRejection == [][C8_SelfLinkStep]_vars

\* A self-link of a name that exists has been rejected.
C8_Witness ==
    /\ Returned(last, "linkat") /\ last.ret = -1 /\ last.name = last.new
    /\ PositionsOf(Records, last.name) # {}

(***************************************************************************)
(* C9.  unlinkat(name) on a directory with no record of that name returns  *)
(* -1 and leaves the directory, every inode and the allocator unchanged.   *)
(***************************************************************************)
C9_AbsentStep ==
    (last'.op = "unlinkat" /\ PositionsOf(Records, last'.name) = {})
        => /\ last'.returned /\ last'.ret = -1
           /\ UNCHANGED <<inodes, inode_bitmap, data_bitmap>>

C9_UnlinkAbsent == [][C9_AbsentStep]_vars

\* The name was absent from a directory that holds other records.
C9_Witness ==
    /\ Returned(last, "unlinkat") /\ last.ret = -1
    /\ Records # <<>>

(***************************************************************************)
(* C10.  Round-trip I/O: write_at(0, bytes) on a file returns the length   *)
(* of bytes, and the read_at(0, that length) that follows it returns the   *)
(* length and exactly the bytes written.                                   *)
(***************************************************************************)
C10_RoundTripStep ==
    /\ (Returned(last', "write_at") /\ last'.off = 0)
           => last'.ret = Len(last'.buf)
    /\ (/\ Returned(last, "write_at") /\ last.off = 0
        /\ Returned(last', "read_at") /\ last'.off = 0
        /\ last'.id = last.id
        /\ last'.len = Len(last.buf))
           => /\ last'.ret = Len(last.buf)
              /\ last'.data = last.buf

C10_RoundTrip == [][C10_RoundTripStep]_vars

\* A read of more than one block has returned all of a buffer written.
C10_Witness ==
    /\ Returned(last, "read_at")
    /\ last.len > BLOCK_SZ
    /\ last.ret = last.len
    /\ last.data \in IOBufs

(***************************************************************************)
(* C11.  Listing order: ls returns one name per directory record, in the   *)
(* order of the slots, and that order is the order of insertion: create    *)
(* and linkat put the new name last, unlinkat takes one name out and       *)
(* leaves the others in their order.                                       *)
(***************************************************************************)
C11_ListingStep ==
    LET names == DirNames(Root)
    IN  /\ Returned(last', "ls")
               => /\ Len(last'.data) = Len(Records)
                  /\ \A i \in DOMAIN Records : last'.data[i] = Records[i].name
                  /\ DirNames(Root') = names
        /\ (Returned(last', "create") /\ last'.ret # -1)
               => DirNames(Root') = Append(names, last'.name)
        /\ (Returned(last', "linkat") /\ last'.ret = 0)
               => DirNames(Root') = Append(names, last'.new)
        /\ (Returned(last', "unlinkat") /\ last'.ret = 0)
               => \E i \in DOMAIN names :
                      /\ names[i] = last'.name
                      /\ DirNames(Root') = RemoveAt(names, i)

C11_ListingOrder == [][C11_ListingStep]_vars

\* ls has listed two different names, the later inserted one last.
C11_Witness ==
    /\ Returned(last, "ls")
    /\ last.data = <<NameA, NameB>>

(***************************************************************************)
(* C12.  Under any interleaving of the callers' operations no data block   *)
(* is double-allocated: no block is part of two inodes (nor twice of one), *)
(* and a block that is part of an inode is marked allocated, so it is      *)
(* neither freed nor handed out again.                                     *)
(***************************************************************************)
C12_NoDoubleAllocation ==
    /\ \A id \in InodeIds : \A other \in InodeIds \ {id} :
           HeldBlocks(inodes[id]) \cap HeldBlocks(inodes[other]) = {}
    /\ \A id \in InodeIds : \A k \in PointerSlots : \A j \in PointerSlots \ {k} :
           inodes[id].direct[k] # 0 => inodes[id].direct[k] # inodes[id].direct[j]
    /\ \A id \in InodeIds : HeldBlocks(inodes[id]) \subseteq data_bitmap

\* A write has given a file a block while the directory holds another, and
\* the other caller is waiting for the lock.
C12_Witness ==
    \E c \in Callers, d \in Callers :
        /\ callers[c].op = "write_at" /\ callers[c].pc = "sync"
        /\ callers[d].pc = "lock"
        /\ HeldBlocks(inodes[callers[c].id]) # {}
        /\ HeldBlocks(Root) # {}

(***************************************************************************)
(* C13.  Atomicity of mutations: a caller inside create, write_at, clear,  *)
(* linkat or unlinkat holds the file-system lock from its first read to    *)
(* its return, no two callers hold it, and so no step of an operation that *)
(* takes the lock is taken while another caller is inside a mutation.  A   *)
(* directory grown with its record not yet written, and an nlinks that     *)
(* does not count the records of its inode, exist only inside a mutation.  *)
(***************************************************************************)
Mutators == {"create", "write_at", "clear", "linkat", "unlinkat"}

\* Past `self.fs.lock()` and not yet returned.
Inside(c, ops) == callers[c].op \in ops /\ callers[c].pc \notin {"idle", "lock"}

\* The directory has a slot that no create or linkat has written.
GrownUnwritten ==
    \E i \in 0 .. ((Root.size \div DIRENT_SZ) - 1) : ~IsWrittenRecord(ReadDirent(Root, i))

\* Some inode's nlinks is not the number of records that point at it.
NlinksPending ==
    \E id \in InodeIds \ {ROOT_INODE} :
        inodes[id].type # "Unused"
            /\ inodes[id].nlinks # Cardinality({i \in DOMAIN Records : Records[i].inode_id = id})

C13_AtomicStep ==
    /\ \A c \in Callers : Inside(c, LockingOps) => HoldsLock(c, FsLock)
    /\ \A c \in Callers : \A d \in Callers \ {c} :
           ~(HoldsLock(c, FsLock) /\ HoldsLock(d, FsLock))
    /\ (GrownUnwritten \/ NlinksPending) => \E c \in Callers : Inside(c, Mutators)
    /\ \A c \in Callers :
           (Inside(c, LockingOps) /\ callers'[c] # callers[c])
               => \A d \in Callers \ {c} : ~Inside(d, Mutators)

C13_Atomicity == [][C13_AtomicStep]_vars

\* A caller waits for the lock while the directory is grown and unwritten.
C13_Witness ==
    \E c \in Callers, d \in Callers :
        /\ Inside(c, Mutators)
        /\ GrownUnwritten
        /\ ~panicked
        /\ callers[d].pc = "lock"

(***************************************************************************)
(* C14.  Lock order and deadlock freedom.  A block-cache lock is taken     *)
(* only by a caller that holds the file-system lock or runs                *)
(* get_inode_id_from_name, which takes none; the file-system lock is taken *)
(* only by a caller that holds no lock; no caller waits for a lock it      *)
(* holds itself; while nothing has aborted, some caller inside an          *)
(* operation can take its next step; and every caller inside an operation  *)
(* eventually returns, unless an operation aborts on a fatal condition.    *)
(* C14_EachReturns is the statement without that exception.                *)
(***************************************************************************)
Running(c) == callers[c].pc # "idle"

CacheLocks(locks) == {l \in locks : l.kind = "cache"}

C14_LockStep ==
    \A c \in Callers :
        callers'[c] # callers[c] =>
            /\ CacheLocks(StepLocks(callers[c])) # {}
                   => (HoldsLock(c, FsLock) \/ callers[c].op = "get_inode_id_from_name")
            /\ FsLock \in StepLocks(callers[c]) => callers[c].held = <<>>

C14_NoSelfWait ==
    \A c \in Callers : StepLocks(callers[c]) \cap SeqRange(callers[c].held) = {}

\* The lock the caller's next step takes is free.
CanStep(c) == Running(c) /\ \A l \in StepLocks(callers[c]) : LockFree(l)

C14_NoDeadlock ==
    ((\E c \in Callers : Running(c)) /\ ~panicked) => \E c \in Callers : CanStep(c)

ReadOnlyOps == {"find", "ls", "read_at", "state", "get_inode_id_from_name"}

C15_ReadOnlyStep ==
    /\ \A c \in Callers :
           (callers[c].op \in ReadOnlyOps /\ callers'[c] # callers[c])
               => UNCHANGED <<inodes, inode_bitmap, data_bitmap>>
    /\ \A c \in Callers :
           Inside(c, {"find", "ls", "read_at"})
               => /\ HoldsLock(c, FsLock)
                  /\ UNCHANGED <<inodes, inode_bitmap, data_bitmap>>

C15_ReadOnly == [][C15_ReadOnlyStep]_vars

\* A read_at is about to read a file that has data, in a directory that has
\* records, while the other caller waits for the lock.
C15_Witness ==
    \E c \in Callers, d \in Callers :
        /\ callers[c].op = "read_at" /\ callers[c].pc = "read"
        /\ inodes[callers[c].id].size > 0
        /\ Len(Records) > 0
        /\ callers[d].pc = "lock"

(***************************************************************************)
(* C16.  linkat(old, new) with old # new and no record named old aborts:   *)
(* the kernel panics and the call returns no status, neither 0 nor -1.     *)
(***************************************************************************)
C16_AbsentOldStep ==
    (/\ last'.op = "linkat"
     /\ last'.name # last'.new
     /\ find_inode_id(Root, last'.name) = <<>>)
        => /\ ~last'.returned
           /\ panicked'

C16_LinkAbsentOld == [][C16_AbsentOldStep]_vars

\* linkat("b", "a") has aborted in a directory that holds "a" and not "b".
C16_Witness ==
    /\ panicked
    /\ last.op = "linkat" /\ last.name = NameB /\ last.new = NameA
    /\ ~last.returned
    /\ find_inode_id(Root, NameA) # <<>>
    /\ find_inode_id(Root, NameB) = <<>>

(***************************************************************************)
(* C17.  linkat does not reject a new name that has a record: with old     *)
(* present, old # new and new present, linkat(old, new) returns 0, appends *)
(* the record (new, id of old) as the last record and raises the nlinks of *)
(* that inode by 1; new still resolves to the inode of its earlier record, *)
(* and find answers with the first record that carries the name.           *)
(***************************************************************************)
\* The inode id in the first of the records that carry the name.
FirstId(recs, name) == recs[LowestOf(PositionsOf(recs, name))].inode_id

C17_DuplicateStep ==
    /\ (/\ last'.op = "linkat"
        /\ last'.name # last'.new
        /\ PositionsOf(Records, last'.name) # {}
        /\ PositionsOf(Records, last'.new) # {})
           => LET id_of_old == FirstId(Records, last'.name)
              IN  /\ last'.returned /\ last'.ret = 0
                  /\ RecordsOf(Root') =
                         Append(Records, [name |-> last'.new, inode_id |-> id_of_old])
                  /\ inodes'[id_of_old].nlinks = inodes[id_of_old].nlinks + 1
                  /\ FirstId(RecordsOf(Root'), last'.new) = FirstId(Records, last'.new)
    /\ (Returned(last', "find") /\ PositionsOf(Records, last'.name) # {})
           => last'.ret = FirstId(Records, last'.name)

C17_DuplicateName == [][C17_DuplicateStep]_vars

\* find("b") has answered with the inode of the first "b" in a directory
\* where a later record, written by linkat("a", "b"), names another inode.
C17_Witness ==
    /\ Returned(last, "find") /\ last.name = NameB
    /\ \E i \in PositionsOf(Records, NameB) : \E k \in PositionsOf(Records, NameB) :
           /\ i < k
           /\ Records[i].inode_id # Records[k].inode_id
           /\ last.ret = Records[i].inode_id
           /\ Records[k].inode_id = FirstId(Records, NameA)

(***************************************************************************)
(* C18.  The lifecycle of an inode ends at nlinks = 0: once unlinkat has   *)
(* taken the nlinks of an inode that create made to 0, no create, linkat   *)
(* or unlinkat changes it again.                                           *)
(***************************************************************************)
\* The inodes create has made whose last name is gone.
Dead == {id \in inode_bitmap \ {ROOT_INODE} : inodes[id].nlinks = 0}

C18_TerminalStep == \A id \in Dead : inodes'[id].nlinks = 0

C18_Terminal == [][C18_TerminalStep]_vars

\* With a dead inode around, a later create and a linkat on the new file
\* have returned, and the dead inode has no record.
C18_Witness ==
    /\ Dead # {}
    /\ Returned(last, "linkat") /\ last.ret = 0
    /\ Len(Records) = 2
    /\ \A i \in DOMAIN Records : Records[i].inode_id \notin Dead

(***************************************************************************)
(* C19.  Inode ids are never given back: no operation clears a bit of the  *)
(* inode bitmap, and a successful create returns an id that was not        *)
(* allocated before the call, hence different from the id of every earlier *)
(* create, also of files unlinked down to nlinks = 0.                      *)
(***************************************************************************)
C19_FreshIdStep ==
    /\ inode_bitmap \subseteq inode_bitmap'
    /\ (Returned(last', "create") /\ last'.ret # -1)
           => /\ last'.ret \notin inode_bitmap
              /\ inode_bitmap' = inode_bitmap \cup {last'.ret}

C19_InodeIdsKept == [][C19_FreshIdStep]_vars

\* A create has returned a new id after the file of an earlier create was
\* unlinked down to nlinks = 0.
C19_Witness ==
    /\ Returned(last, "create") /\ last.ret # -1
    /\ Dead # {}
    /\ \A id \in Dead : id < last.ret

(***************************************************************************)
(* C20.  Successful create: create(name) on a directory with no record of  *)
(* the name returns a handle; the directory then holds its earlier records *)
(* unchanged and in order and the record (name, new inode id) as the last  *)
(* one; the new inode is a File of size 0; and the lookup of name resolves *)
(* to the inode of the returned handle, hence to the same place on disk.   *)
(***************************************************************************)
C20_CreateStep ==
    (last'.op = "create" /\ PositionsOf(Records, last'.name) = {})
        => /\ last'.returned /\ last'.ret # -1
           /\ last'.ret \notin inode_bitmap
           /\ RecordsOf(Root') =
                  Append(Records, [name |-> last'.name, inode_id |-> last'.ret])
           /\ inodes'[last'.ret].type = "File"
           /\ inodes'[last'.ret].size = 0
           /\ find_inode_id(Root', last'.name) = <<last'.ret>>
           /\ get_disk_inode_pos(find_inode_id(Root', last'.name)[1])
                  = get_disk_inode_pos(last'.ret)

C20_CreateSucceeds == [][C20_CreateStep]_vars

\* create("a") has returned a new file in a directory that already held two
\* records, which stay in front of the new one.
C20_Witness ==
    /\ Returned(last, "create") /\ last.ret # -1 /\ last.name = NameA
    /\ Len(Records) = 3
    /\ Records[1].name = NameB /\ Records[2].name = NameB
    /\ Records[3] = [name |-> NameA, inode_id |-> last.ret]
    /\ Records[1].inode_id # last.ret

(***************************************************************************)
(* C21.  Reference counts: between operations, the nlinks of every inode   *)
(* that create has made equals the number of records of the directory that *)
(* carry its id, also when linkat has made records of one name point at    *)
(* different inodes.  An operation that has aborted has not returned: the  *)
(* kernel has stopped inside it.                                           *)
(***************************************************************************)
RecordsTo(id) == {i \in DOMAIN Records : Records[i].inode_id = id}

C21_RefCount ==
    ~panicked =>
        \A id \in inode_bitmap \ {ROOT_INODE} :
            inodes[id].nlinks = Cardinality(RecordsTo(id))

\* unlinkat("b") has removed the first of two records named "b" that pointed
\* at different inodes: the inode of that record is dead, the other "b" stays.
C21_Witness ==
    /\ Returned(last, "unlinkat") /\ last.ret = 0 /\ last.name = NameB
    /\ Len(Records) = 2
    /\ Records[1].name = NameA /\ Records[2].name = NameB
    /\ Records[1].inode_id = Records[2].inode_id
    /\ inodes[Records[1].inode_id].nlinks = 2
    /\ Dead # {}

(***************************************************************************)
(* C22.  Growth only: write_at(offset, buf) never lowers the size of the   *)
(* inode.  With offset + len <= size it takes no block and leaves the size *)
(* as it is; otherwise the size becomes offset + len and the allocator     *)
(* gives blocks_num_needed(offset + len) blocks, which the inode holds.    *)
(***************************************************************************)
C22_GrowthStep ==
    Returned(last', "write_at") =>
        LET old == inodes[last'.id]
            new == inodes'[last'.id]
            end == last'.off + Len(last'.buf)
            taken == data_bitmap' \ data_bitmap
        IN  /\ new.size >= old.size
            /\ data_bitmap \subseteq data_bitmap'
            /\ end <= old.size => (new.size = old.size /\ taken = {})
            /\ end > old.size
                   => /\ new.size = end
                      /\ Cardinality(taken) = blocks_num_needed(old, end)
                      /\ HeldBlocks(new) = HeldBlocks(old) \cup taken

C22_GrowthOnly == [][C22_GrowthStep]_vars

\* A write past the middle of the first block has grown a file into its
\* second block.
C22_Witness ==
    /\ Returned(last, "write_at") /\ last.off > 0
    /\ inodes[last.id].size = last.off + Len(last.buf)
    /\ Cardinality(HeldBlocks(inodes[last.id])) = 2

(***************************************************************************)
(* C23.  clear never fails its assertion, whatever the inode: a file with  *)
(* data, a file emptied by the unlinkat that took nlinks to 0, a file      *)
(* cleared before.  The blocks the inode holds are total_blocks(size) in   *)
(* number; after clear the size is 0, the inode holds none of them, and    *)
(* each of them, allocated before, is free after.                          *)
(***************************************************************************)
C23_ClearStep ==
    last'.op = "clear" =>
        LET old == inodes[last'.id]
            new == inodes'[last'.id]
        IN  /\ last'.returned /\ ~panicked'
            /\ Cardinality(HeldBlocks(old)) = total_blocks(old.size)
            /\ new.size = 0
            /\ HeldBlocks(new) = {}
            /\ HeldBlocks(old) \subseteq data_bitmap
            /\ data_bitmap' = data_bitmap \ HeldBlocks(old)
            /\ \A other \in InodeIds : HeldBlocks(inodes'[other]) \cap HeldBlocks(old) = {}

FileOf(table, fd) == table[fd + 1][1]
IsOpen(table, fd) == fd < Len(table) /\ table[fd + 1] # <<>>

C24_FstatStep ==
    /\ (last'.op = "sys_open" /\ last'.returned /\ last'.ret # -1) =>
           /\ IsOpen(fd_table', last'.ret)
           /\ PositionsOf(RecordsOf(Root'), last'.name) # {}
           /\ fdtoinode'[last'.ret] = FirstId(RecordsOf(Root'), last'.name)
           /\ fdtoinode'[last'.ret] = FileOf(fd_table', last'.ret).inode_id
    /\ \A fd \in Fds :
           fdtoinode'[fd] # fdtoinode[fd] => last'.op = "sys_open" /\ last'.ret = fd
    /\ last'.op = "sys_fstat" =>
           /\ last'.returned /\ last'.ret = 0
           /\ last'.data = <<fdtoinode[last'.id], inodes[fdtoinode[last'.id]].nlinks>>
           /\ last'.data[2] = Cardinality(RecordsTo(fdtoinode[last'.id]))
           /\ IsOpen(fd_table, last'.id) =>
                  last'.data[1] = FileOf(fd_table, last'.id).inode_id

C24_Fstat == [][C24_FstatStep]_vars

\* Two fds are open on one inode that has the names "a" and "b", the name
\* "b" made by sys_linkat, and sys_fstat on the later fd has reported the
\* inode with nlink 2.
C24_Witness ==
    /\ last.op = "sys_fstat" /\ last.id = 4 /\ last.ret = 0
    /\ IsOpen(fd_table, 3) /\ IsOpen(fd_table, 4)
    /\ FileOf(fd_table, 3).inode_id = FileOf(fd_table, 4).inode_id
    /\ fdtoinode[3] = fdtoinode[4]
    /\ Len(Records) = 2
    /\ Records[1].name = NameA /\ Records[2].name = NameB
    /\ Records[1].inode_id = fdtoinode[3] /\ Records[2].inode_id = fdtoinode[3]
    /\ last.data = <<fdtoinode[4], 2>>

(***************************************************************************)
(* C25.  sys_read, sys_write and sys_close on an fd that is past the end   *)
(* of the table or whose slot is empty return -1 and change nothing.  A    *)
(* sys_close on an open fd returns 0 and leaves exactly that slot empty,   *)
(* and an empty slot is filled again only by a sys_open that returns its   *)
(* fd, so until then every sys_close, sys_read and sys_write on the fd     *)
(* returns -1.  sys_write on a file that is not writable and sys_read on   *)
(* one that is not readable return -1 and leave the file system and the    *)
(* file's offset as they were.                                             *)
(***************************************************************************)
FdCalls == {"sys_read", "sys_write", "sys_close"}

C25_FdStep ==
    /\ (last'.op \in FdCalls /\ ~IsOpen(fd_table, last'.id)) =>
           /\ last'.returned /\ last'.ret = -1
           /\ UNCHANGED <<inodes, inode_bitmap, data_bitmap, dirty, fd_table>>
    /\ (last'.op = "sys_close" /\ IsOpen(fd_table, last'.id)) =>
           /\ last'.returned /\ last'.ret = 0
           /\ Len(fd_table') = Len(fd_table)
           /\ \A fd \in 0 .. (Len(fd_table) - 1) :
                  fd_table'[fd + 1] = IF fd = last'.id THEN <<>> ELSE fd_table[fd + 1]
    /\ \A fd \in Fds :
           (~IsOpen(fd_table, fd) /\ IsOpen(fd_table', fd)) =>
               last'.op = "sys_open" /\ last'.ret = fd
    /\ (/\ last'.op = "sys_write"
        /\ IsOpen(fd_table, last'.id)
        /\ ~FileOf(fd_table, last'.id).writable) =>
           /\ last'.returned /\ last'.ret = -1
           /\ UNCHANGED <<inodes, inode_bitmap, data_bitmap, dirty, fd_table>>
    /\ (/\ last'.op = "sys_read"
        /\ IsOpen(fd_table, last'.id)
        /\ ~FileOf(fd_table, last'.id).readable) =>
           /\ last'.returned /\ last'.ret = -1
           /\ UNCHANGED <<inodes, inode_bitmap, data_bitmap, dirty, fd_table>>

C25_FdLifecycle == [][C25_FdStep]_vars

\* fd 3 was opened and closed and a second sys_close(3) has returned -1,
\* while fd 4 is open on a file that was written and is not writable
\* through fd 4.
C25_Witness ==
    /\ last.op = "sys_close" /\ last.id = 3 /\ last.ret = -1
    /\ Len(fd_table) = 5
    /\ fd_table[4] = <<>>
    /\ IsOpen(fd_table, 4)
    /\ FileOf(fd_table, 4).kind = "file"
    /\ ~FileOf(fd_table, 4).writable
    /\ inodes[FileOf(fd_table, 4).inode_id].size = 1

====
